---- MODULE Spec2Model ----
(***************************************************************************)
(* MetalDeploy: the environment-secret resolution and file-materialization *)
(* engine (src/src/env_manager.py) and the per-host deployment driver      *)
(* (src/src/orchestrator.py).                                              *)
(*                                                                         *)
(* Python str values are TLA+ strings; Len, SubSeq and \o act on them      *)
(* character by character.  A Python dict is a sequence of <<key, value>>  *)
(* pairs with distinct keys, in insertion order.                           *)
(***************************************************************************)
EXTENDS Integers, Sequences, FiniteSets, TLC

VARIABLES
    environ,        \* os.environ: sequence of <<name, value>>, distinct names
    config,         \* src.config.config: the fields env_manager reads
    hashOrder,      \* iteration order of the str set built at env_manager.py:173
    pc,             \* position of the running function / driver
    fn,             \* which entry point this run exercises
    args,           \* arguments of the pure function under call
    ret,            \* its return value
    env_file_data,  \* generate_env_files: pattern -> content (insertion order)
    file_paths,     \* generate_env_files: pattern -> path
    todo,           \* create_env_file calls still to be made, in order
    created,        \* create_env_file calls made so far: [origin, path, content]
    shell,          \* the remote shell running one batch command
    remote,         \* remote file system: path -> [content, mode]
    remoteDirs,     \* remote directories created by mkdir -p
    cmdLog,         \* remote steps executed, in order
    raised,         \* the step whose exception is in flight in generate_env_files, or ""
    stages,         \* deploy_single_host stages ended so far: [stage, outcome]
    futures,        \* handle_connection: futures submitted to the pool, in order
    mainProc        \* the main process: pool, direct calls, GITHUB_OUTPUT, exit status

vars == <<environ, config, hashOrder, pc, fn, args, ret, env_file_data,
          file_paths, todo, created, shell, remote, remoteDirs, cmdLog,
          raised, stages, futures, mainProc>>

-----------------------------------------------------------------------------
(* Python str primitives *)

\* Python evaluates an expression once and binds its value to a name: F applied to
\* the value of v
Bind(v, F(_)) == CHOOSE r \in {F(x) : x \in {v}} : TRUE

\* s[i:i+1], 1-based: the empty string outside s
CharAt(s, i) == IF i < 1 \/ i > Len(s) THEN "" ELSE SubSeq(s, i, i)

StartsWith(s, p) == Len(s) >= Len(p) /\ SubSeq(s, 1, Len(p)) = p

EndsWith(s, p) == Len(s) >= Len(p) /\ SubSeq(s, Len(s) - Len(p) + 1, Len(s)) = p

\* s[n:]
DropPrefix(s, n) == IF n >= Len(s) THEN "" ELSE SubSeq(s, n + 1, Len(s))

Contains(s, sub) ==
    Bind(s, LAMBDA t : \E i \in 1..(Len(t) - Len(sub) + 1) : SubSeq(t, i, i + Len(sub) - 1) = sub)

\* str.find: least index (1-based) at or after `from` where sub occurs, 0 if none
Find(s, sub, from) ==
    Bind(s, LAMBDA t :
        Bind({i \in from..(Len(t) - Len(sub) + 1) : SubSeq(t, i, i + Len(sub) - 1) = sub},
             LAMBDA hits : IF hits = {} THEN 0 ELSE CHOOSE i \in hits : \A j \in hits : i <= j))

IsSpace(c) == c \in {" ", "\t", "\n", "\r", "\f"}

RECURSIVE LStrip(_)
LStrip(s) ==
    Bind(s, LAMBDA t : IF Len(t) > 0 /\ IsSpace(CharAt(t, 1)) THEN LStrip(DropPrefix(t, 1)) ELSE t)

RECURSIVE RStrip(_)
RStrip(s) ==
    Bind(s, LAMBDA t : IF Len(t) > 0 /\ IsSpace(CharAt(t, Len(t)))
                       THEN RStrip(SubSeq(t, 1, Len(t) - 1))
                       ELSE t)

Strip(s) == LStrip(RStrip(s))

\* str.lstrip(chars) / str.rstrip(chars) for a set of characters
RECURSIVE LStripChars(_, _)
LStripChars(s, cs) ==
    Bind(s, LAMBDA t : IF Len(t) > 0 /\ CharAt(t, 1) \in cs
                       THEN LStripChars(DropPrefix(t, 1), cs)
                       ELSE t)

RECURSIVE RStripChars(_, _)
RStripChars(s, cs) ==
    Bind(s, LAMBDA t : IF Len(t) > 0 /\ CharAt(t, Len(t)) \in cs
                       THEN RStripChars(SubSeq(t, 1, Len(t) - 1), cs)
                       ELSE t)

LowerLetters == "abcdefghijklmnopqrstuvwxyz"
UpperLetters == "ABCDEFGHIJKLMNOPQRSTUVWXYZ"
Digits == "0123456789"

IndexIn(alphabet, c) ==
    LET hits == {i \in 1..Len(alphabet) : CharAt(alphabet, i) = c}
    IN  IF hits = {} THEN 0 ELSE CHOOSE i \in hits : TRUE

\* str.upper() / str.lower() of one character, tabulated
UpperTable == [i \in 1..Len(LowerLetters) |-> <<CharAt(LowerLetters, i), CharAt(UpperLetters, i)>>]
ToUpper == [c \in {UpperTable[i][1] : i \in 1..Len(UpperTable)} |->
               CharAt(UpperLetters, IndexIn(LowerLetters, c))]
ToLower == [c \in {UpperTable[i][2] : i \in 1..Len(UpperTable)} |->
               CharAt(LowerLetters, IndexIn(UpperLetters, c))]

UpperChar(c) == IF c \in DOMAIN ToUpper THEN ToUpper[c] ELSE c

LowerChar(c) == IF c \in DOMAIN ToLower THEN ToLower[c] ELSE c

RECURSIVE Upper(_)
Upper(s) ==
    Bind(s, LAMBDA t : IF t = "" THEN "" ELSE UpperChar(CharAt(t, 1)) \o Upper(DropPrefix(t, 1)))

RECURSIVE Lower(_)
Lower(s) ==
    Bind(s, LAMBDA t : IF t = "" THEN "" ELSE LowerChar(CharAt(t, 1)) \o Lower(DropPrefix(t, 1)))

\* str.replace(old, new), old non-empty: leftmost non-overlapping occurrences
RECURSIVE Replace(_, _, _)
Replace(s, old, new) ==
    Bind(s, LAMBDA t :
        Bind(Find(t, old, 1), LAMBDA i :
            IF i = 0 THEN t
            ELSE SubSeq(t, 1, i - 1) \o new \o Replace(DropPrefix(t, i + Len(old) - 1), old, new)))

\* str.split(sep)[0]
FirstToken(s, sep) ==
    Bind(s, LAMBDA t : Bind(Find(t, sep, 1), LAMBDA i : IF i = 0 THEN t ELSE SubSeq(t, 1, i - 1)))

\* str.splitlines() for "\n"-separated text: no trailing empty line
RECURSIVE SplitLines(_)
SplitLines(s) ==
    Bind(s, LAMBDA t :
        IF t = "" THEN <<>>
        ELSE Bind(Find(t, "\n", 1), LAMBDA i :
                 IF i = 0 THEN <<t>>
                 ELSE <<SubSeq(t, 1, i - 1)>> \o SplitLines(DropPrefix(t, i))))

\* sep.join(parts)
RECURSIVE Join(_, _)
Join(parts, sep) ==
    Bind(parts, LAMBDA ps :
        IF ps = <<>> THEN ""
        ELSE IF Len(ps) = 1 THEN ps[1]
        ELSE ps[1] \o sep \o Join(Tail(ps), sep))

\* ord() of the characters the model handles: the printable ASCII characters in
\* code order from 32; the slot of code 96 (a backquote, which a TLA+ string cannot
\* hold) is filled with a tab, which Ord and Chr handle before the table
AsciiChars ==
    " !\"#$%&'()*+,-./0123456789:;<=>?@ABCDEFGHIJKLMNOPQRSTUVWXYZ[\\]^_\tabcdefghijklmnopqrstuvwxyz{|}~"

OrdTable == [c \in {CharAt(AsciiChars, i) : i \in 1..Len(AsciiChars)} |->
                31 + IndexIn(AsciiChars, c)]

Ord(c) == IF c = "\n" THEN 10 ELSE IF c = "\t" THEN 9 ELSE OrdTable[c]

Chr(n) == IF n = 10 THEN "\n" ELSE IF n = 9 THEN "\t" ELSE CharAt(AsciiChars, n - 31)

\* Python's < on str: lexicographic by code point
RECURSIVE StrLess(_, _)
StrLess(a, b) ==
    Bind(<<a, b>>, LAMBDA p :
        IF p[2] = "" THEN FALSE
        ELSE IF p[1] = "" THEN TRUE
        ELSE IF CharAt(p[1], 1) = CharAt(p[2], 1)
        THEN StrLess(DropPrefix(p[1], 1), DropPrefix(p[2], 1))
        ELSE Ord(CharAt(p[1], 1)) < Ord(CharAt(p[2], 1)))

\* sorted(list(set_of_str))
RECURSIVE SortedSeq(_)
SortedSeq(S) ==
    Bind(S, LAMBDA T :
        IF T = {} THEN <<>>
        ELSE Bind(CHOOSE x \in T : \A y \in T \ {x} : StrLess(x, y),
                  LAMBDA m : <<m>> \o SortedSeq(T \ {m})))

-----------------------------------------------------------------------------
(* Python dict, as a sequence of <<key, value>> pairs *)

DictKeys(d) == {d[i][1] : i \in 1..Len(d)}

HasKey(d, k) == \E i \in 1..Len(d) : d[i][1] = k

DictGet(d, k) == Bind(d, LAMBDA dict : dict[CHOOSE i \in 1..Len(dict) : dict[i][1] = k][2])

\* d[k] = v: an existing key keeps its position
DictSet(d, k, v) ==
    Bind(d, LAMBDA dict : Bind(<<k, v>>, LAMBDA item :
        IF HasKey(dict, item[1])
        THEN [i \in 1..Len(dict) |-> IF dict[i][1] = item[1] THEN item ELSE dict[i]]
        ELSE Append(dict, item)))

\* for k, v in src.items(): d[k] = v, from the i-th item of src on
RECURSIVE DictUpdateFrom(_, _, _)
DictUpdateFrom(d, src, i) ==
    IF i > Len(src) THEN d
    ELSE Bind(DictSet(d, src[i][1], src[i][2]), LAMBDA dict : DictUpdateFrom(dict, src, i + 1))

DictUpdate(d, src) == Bind(src, LAMBDA items : DictUpdateFrom(d, items, 1))

-----------------------------------------------------------------------------
(* The libraries parse_all_in_one_secret calls.  json.loads and yaml.safe_load   *)
(* are modelled on the documents the blobs of a deployment hold: one flat object *)
(* or mapping whose values are scalars.  A result is [ok, isDict, items]: ok is  *)
(* FALSE where the library raises; items holds str(k), str(v) as env_manager.py  *)
(* lines 39, 51, 63 and 71 build them.                                           *)

ParseError == [ok |-> FALSE, isDict |-> FALSE, items |-> <<>>]

\* A document outside the modelled fragment: evaluating it is an error.
Unmodelled == CHOOSE x \in {} : TRUE

RECURSIVE SkipSpaces(_, _)
SkipSpaces(s, i) == IF i <= Len(s) /\ IsSpace(CharAt(s, i)) THEN SkipSpaces(s, i + 1) ELSE i

\* end (exclusive) of the maximal run of characters of cs starting at i
RECURSIVE RunEnd(_, _, _)
RunEnd(s, i, cs) ==
    IF i <= Len(s) /\ CharAt(s, i) \in cs THEN RunEnd(s, i + 1, cs) ELSE i

DigitChars == {CharAt(Digits, i) : i \in 1..Len(Digits)}

\* A JSON string whose opening quote is at i - 1: [ok, val, next]
RECURSIVE JsonString(_, _, _)
JsonString(s, i, acc) ==
    IF i > Len(s) THEN [ok |-> FALSE, val |-> "", next |-> i]
    ELSE LET c == CharAt(s, i)
         IN  IF c = "\"" THEN [ok |-> TRUE, val |-> acc, next |-> i + 1]
             ELSE IF c \in {"\n", "\t", "\r", "\f"} THEN [ok |-> FALSE, val |-> "", next |-> i]
             ELSE IF c = "\\"
             THEN LET e == CharAt(s, i + 1)
                  IN  IF e \in {"\"", "\\", "/"} THEN JsonString(s, i + 2, acc \o e)
                      ELSE IF e = "n" THEN JsonString(s, i + 2, acc \o "\n")
                      ELSE IF e = "t" THEN JsonString(s, i + 2, acc \o "\t")
                      ELSE IF e \in {"b", "f", "r", "u"} THEN Unmodelled
                      ELSE [ok |-> FALSE, val |-> "", next |-> i]
             ELSE JsonString(s, i + 1, acc \o c)

\* A JSON scalar at i, rendered by str(): [ok, val, next]
JsonScalar(s, i) ==
    Bind(i, LAMBDA at :
        LET c == CharAt(s, at)
            rest == DropPrefix(s, at - 1)
            digitsFrom == IF c = "-" THEN at + 1 ELSE at
        IN  IF c = "\"" THEN JsonString(s, at + 1, "")
            ELSE IF StartsWith(rest, "true") THEN [ok |-> TRUE, val |-> "True", next |-> at + 4]
            ELSE IF StartsWith(rest, "false") THEN [ok |-> TRUE, val |-> "False", next |-> at + 5]
            ELSE IF StartsWith(rest, "null") THEN [ok |-> TRUE, val |-> "None", next |-> at + 4]
            ELSE IF c \in {"{", "["} THEN Unmodelled
            ELSE Bind(RunEnd(s, digitsFrom, DigitChars), LAMBDA e :
                     IF e = digitsFrom THEN [ok |-> FALSE, val |-> "", next |-> at]
                     ELSE IF CharAt(s, digitsFrom) = "0" /\ e > digitsFrom + 1
                          THEN [ok |-> FALSE, val |-> "", next |-> at]
                     ELSE IF CharAt(s, e) \in {".", "e", "E"} THEN Unmodelled
                     ELSE [ok |-> TRUE, val |-> SubSeq(s, at, e - 1), next |-> e]))

\* The members of an object, i at a member or at the closing brace
RECURSIVE JsonMembers(_, _, _, _)
JsonMembers(s, i, first, acc) ==
    Bind(SkipSpaces(s, i), LAMBDA j :
        IF first /\ CharAt(s, j) = "}" THEN [ok |-> TRUE, items |-> acc, next |-> j + 1]
        ELSE IF CharAt(s, j) # "\"" THEN [ok |-> FALSE, items |-> <<>>, next |-> j]
        ELSE Bind(JsonString(s, j + 1, ""), LAMBDA k :
             Bind(SkipSpaces(s, k.next), LAMBDA c :
                 IF ~k.ok \/ CharAt(s, c) # ":" THEN [ok |-> FALSE, items |-> <<>>, next |-> c]
                 ELSE Bind(JsonScalar(s, SkipSpaces(s, c + 1)), LAMBDA v :
                      Bind(SkipSpaces(s, v.next), LAMBDA d :
                          IF ~v.ok THEN [ok |-> FALSE, items |-> <<>>, next |-> d]
                          ELSE IF CharAt(s, d) = ","
                          THEN JsonMembers(s, d + 1, FALSE, DictSet(acc, k.val, v.val))
                          ELSE IF CharAt(s, d) = "}"
                          THEN [ok |-> TRUE, items |-> DictSet(acc, k.val, v.val), next |-> d + 1]
                          ELSE [ok |-> FALSE, items |-> <<>>, next |-> d])))))

\* json.loads(s)
JsonLoads(s) ==
    Bind(SkipSpaces(s, 1), LAMBDA i :
        IF i > Len(s) THEN ParseError
        ELSE IF CharAt(s, i) = "{"
        THEN Bind(JsonMembers(s, i + 1, TRUE, <<>>), LAMBDA m :
                 IF m.ok /\ SkipSpaces(s, m.next) > Len(s)
                 THEN [ok |-> TRUE, isDict |-> TRUE, items |-> m.items]
                 ELSE ParseError)
        ELSE Bind(JsonScalar(s, i), LAMBDA v :
                 IF v.ok /\ SkipSpaces(s, v.next) > Len(s)
                 THEN [ok |-> TRUE, isDict |-> FALSE, items |-> <<>>]
                 ELSE ParseError))

\* YAML 1.1 resolution of a plain scalar, rendered by str()
YamlTrue == {"true", "True", "TRUE", "yes", "Yes", "YES", "on", "On", "ON"}
YamlFalse == {"false", "False", "FALSE", "no", "No", "NO", "off", "Off", "OFF"}
YamlNull == {"", "~", "null", "Null", "NULL"}

\* characters that give a plain scalar another meaning where they stand
YamlIndicators == {"[", "]", "{", "}", "&", "*", "!", "|", ">", "'", "\"", "%", "@", "#", ",", "?", "-"}

YamlScalar(v) ==
    Bind(v, LAMBDA t :
        IF t \in YamlTrue THEN "True"
        ELSE IF t \in YamlFalse THEN "False"
        ELSE IF t \in YamlNull THEN "None"
        ELSE IF CharAt(t, 1) \in YamlIndicators \/ Contains(t, " #") \/ Contains(t, ": ")
             THEN Unmodelled
        ELSE IF CharAt(t, 1) \in DigitChars \cup {"+", "."}
             THEN IF RunEnd(t, 1, DigitChars) = Len(t) + 1 /\ (Len(t) = 1 \/ CharAt(t, 1) # "0")
                  THEN t
                  ELSE Unmodelled
        ELSE t)

\* a line "key: value" or "key:" of a block mapping
YamlIsEntry(line) == Contains(line, ": ") \/ EndsWith(line, ":")

YamlEntry(line) ==
    Bind(Find(line \o " ", ": ", 1), LAMBDA i :
        Bind(SubSeq(line, 1, i - 1), LAMBDA k :
            IF k = "" \/ CharAt(k, 1) \in YamlIndicators \cup {" ", "\t"} THEN Unmodelled
            ELSE <<YamlScalar(k), YamlScalar(Strip(DropPrefix(line, i)))>>))

\* the mapping of the entries lines[i..], added to acc
RECURSIVE YamlEntries(_, _, _)
YamlEntries(lines, i, acc) ==
    IF i > Len(lines) THEN acc
    ELSE Bind(lines[i], LAMBDA line : Bind(YamlEntry(line), LAMBDA e :
             YamlEntries(lines, i + 1, DictSet(acc, e[1], e[2]))))

\* yaml.safe_load(s)
YamlLoad(s) ==
    Bind(SplitLines(s), LAMBDA all :
    Bind({i \in 1..Len(all) : Strip(all[i]) # "" /\ ~StartsWith(Strip(all[i]), "#")}, LAMBDA idx :
    Bind({i \in idx : YamlIsEntry(RStrip(all[i]))}, LAMBDA entries :
        LET ordered == [n \in 1..Cardinality(idx) |->
                           RStrip(all[CHOOSE i \in idx : Cardinality({j \in idx : j < i}) = n - 1])]
        IN  IF idx = {} THEN [ok |-> TRUE, isDict |-> FALSE, items |-> <<>>]
            ELSE IF CharAt(ordered[1], 1) \in YamlIndicators THEN Unmodelled
            ELSE IF entries = {} THEN [ok |-> TRUE, isDict |-> FALSE, items |-> <<>>]
            ELSE IF entries # idx THEN ParseError
            ELSE [ok |-> TRUE, isDict |-> TRUE, items |-> YamlEntries(ordered, 1, <<>>)])))

-----------------------------------------------------------------------------
(* parse_all_in_one_secret *)

\* Files of the machine that runs the orchestrator (os.path.isfile / open):
\* path -> content.  CI systems hand out some secrets as files.
LocalFiles == <<<<"/run/secrets/app.env", "PORT=7000\nMODE=file\n">>>>

\* [A-Z0-9_] and [\s,] of the regex at env_manager.py:83
KeyChars == {CharAt(UpperLetters, i) : i \in 1..Len(UpperLetters)} \cup DigitChars \cup {"_"}
KeyDelims == {" ", "\t", "\n", "\r", "\f", ","}

NoMatch == [start |-> 0, keyStart |-> 0, eq |-> 0]

\* the regex (?:^|[\s,])([A-Z0-9_]+)= matched at position p of s
KeyMatchAt(s, p) ==
    Bind(<<RunEnd(s, p, KeyChars), RunEnd(s, p + 1, KeyChars)>>, LAMBDA e :
        IF p = 1 /\ e[1] > p /\ CharAt(s, e[1]) = "="
        THEN [start |-> p, keyStart |-> p, eq |-> e[1]]
        ELSE IF CharAt(s, p) \in KeyDelims /\ e[2] > p + 1 /\ CharAt(s, e[2]) = "="
        THEN [start |-> p, keyStart |-> p + 1, eq |-> e[2]]
        ELSE NoMatch)

\* re.finditer: the matches from position `from` on, leftmost first, not overlapping
RECURSIVE KeyMatches(_, _)
KeyMatches(s, from) ==
    Bind({p \in from..Len(s) : KeyMatchAt(s, p).start # 0}, LAMBDA hits :
        IF hits = {} THEN <<>>
        ELSE Bind(KeyMatchAt(s, CHOOSE x \in hits : \A y \in hits : x <= y), LAMBDA m :
                 <<m>> \o KeyMatches(s, m.eq + 1)))

\* lines 98-108: the value of one key
EnvValue(raw, strip_quotes) ==
    Bind(RStripChars(Strip(raw), {" ", ","}), LAMBDA value :
        IF strip_quotes /\ ( (StartsWith(value, "\"") /\ EndsWith(value, "\""))
                             \/ (StartsWith(value, "'") /\ EndsWith(value, "'")) )
        THEN SubSeq(value, 2, Len(value) - 1)
        ELSE value)

RECURSIVE EnvPairs(_, _, _, _, _)
EnvPairs(clean, ms, i, strip_quotes, acc) ==
    IF i > Len(ms) THEN acc
    ELSE LET key == SubSeq(clean, ms[i].keyStart, ms[i].eq - 1)
             val_end == IF i + 1 <= Len(ms) THEN ms[i + 1].start - 1 ELSE Len(clean)
             raw == IF ms[i].eq + 1 > val_end THEN "" ELSE SubSeq(clean, ms[i].eq + 1, val_end)
         IN  Bind(DictSet(acc, key, EnvValue(raw, strip_quotes)), LAMBDA dict :
                 EnvPairs(clean, ms, i + 1, strip_quotes, dict))

\* lines 75-112: the ENV format
ParseEnvFormat(secret_content, strip_quotes) ==
    Bind(Join(SelectSeq(SplitLines(secret_content), LAMBDA l : ~StartsWith(Strip(l), "#")), "\n"),
         LAMBDA clean_content :
    Bind(KeyMatches(clean_content, 1), LAMBDA key_matches :
        EnvPairs(clean_content, key_matches, 1, strip_quotes, <<>>)))

\* lines 33-57: format_hint == "auto"; <<returned, value>> or the hint to go on with
AutoDetect(secret_content, processed_content) ==
    Bind(IF StartsWith(processed_content, "{") /\ EndsWith(processed_content, "}")
         THEN JsonLoads(processed_content)
         ELSE ParseError, LAMBDA j :
        IF j.ok /\ j.isDict THEN [returned |-> TRUE, value |-> j.items, hint |-> "auto"]
        ELSE Bind(IF Contains(processed_content, ":") THEN YamlLoad(processed_content)
                  ELSE ParseError, LAMBDA y :
                 IF y.ok /\ y.isDict /\
                    (Len(y.items) > 1 \/
                     Bind(SplitLines(processed_content), LAMBDA lines :
                         \E i \in 1..Len(lines) : Contains(lines[i], ":")))
                 THEN [returned |-> TRUE, value |-> y.items, hint |-> "auto"]
                 ELSE [returned |-> FALSE, value |-> <<>>,
                       hint |-> IF Contains(secret_content, "=") THEN "env" ELSE "auto"]))

ParseSecret(content, format_hint, strip_quotes) ==
    IF content = "" THEN <<>>
    ELSE
    Bind(Strip(content), LAMBDA stripped :
    Bind(IF HasKey(LocalFiles, stripped) THEN Strip(DictGet(LocalFiles, stripped)) ELSE stripped,
         LAMBDA secret_content :
    Bind(Replace(secret_content, "\\n", "\n"), LAMBDA processed_content :
    Bind(IF format_hint = "auto"
         THEN AutoDetect(secret_content, processed_content)
         ELSE [returned |-> FALSE, value |-> <<>>, hint |-> format_hint], LAMBDA auto :
        IF auto.returned THEN auto.value
        ELSE IF auto.hint = "json"
        THEN Bind(JsonLoads(processed_content), LAMBDA j :
                 IF j.ok /\ j.isDict THEN j.items ELSE <<>>)
        ELSE IF auto.hint = "yaml"
        THEN Bind(YamlLoad(processed_content), LAMBDA y :
                 IF y.ok /\ y.isDict THEN y.items ELSE <<>>)
        ELSE IF auto.hint = "env" THEN ParseEnvFormat(secret_content, strip_quotes)
        ELSE <<>>))))

\* parse_all_in_one_secret(secret_content, format_hint), strip_quotes defaulted
parse_all_in_one_secret(secret_content, format_hint) ==
    ParseSecret(secret_content, format_hint, TRUE)

-----------------------------------------------------------------------------
(* os.path *)

\* os.path.join(a, b)
PathJoin(a, b) ==
    IF StartsWith(b, "/") THEN b
    ELSE IF a = "" \/ EndsWith(a, "/") THEN a \o b
    ELSE a \o "/" \o b

\* index of the last "/" of p, 0 if none
RECURSIVE LastSlash(_, _)
LastSlash(p, i) == IF i = 0 \/ CharAt(p, i) = "/" THEN i ELSE LastSlash(p, i - 1)

\* os.path.dirname(p)
PathDirname(p) ==
    LET head == SubSeq(p, 1, LastSlash(p, Len(p)))
    IN  IF head # "" /\ RStripChars(head, {"/"}) # "" THEN RStripChars(head, {"/"}) ELSE head

\* os.path.isabs(p)
PathIsAbs(p) == StartsWith(p, "/")

-----------------------------------------------------------------------------
(* detect_file_patterns *)

\* the names of env_manager.py:173 besides the active environment
FallbackEnvs == {"PROD", "STAGING", "DEV", "TEST", "PRODUCTION"}

\* set([env_upper, "PROD", ...]): its members
EnvCandidates(env_upper) == {env_upper} \cup FallbackEnvs

\* lines 174-183: the first candidate, in the set's iteration order, that var_name
\* matches; "" if none
RECURSIVE MatchedEnv(_, _, _)
MatchedEnv(var_name, order, i) ==
    IF i > Len(order) THEN ""
    ELSE IF order[i] # "" /\ ( StartsWith(var_name, "ENV_" \o order[i] \o "_")
                               \/ var_name = "ENV_" \o order[i] )
    THEN order[i]
    ELSE MatchedEnv(var_name, order, i + 1)

\* lines 167-212: the patterns one variable adds
PatternsOfVar(var_name, env_upper, order) ==
    Bind(MatchedEnv(var_name, order, 1), LAMBDA matched_env :
        LET raw_suffix ==
                IF matched_env # ""
                THEN IF StartsWith(var_name, "ENV_" \o matched_env \o "_")
                     THEN DropPrefix(var_name, Len("ENV_" \o matched_env \o "_"))
                     ELSE DropPrefix(var_name, Len("ENV_" \o matched_env))
                ELSE DropPrefix(var_name, 4)
        IN  Bind(LStripChars(raw_suffix, {"_"}), LAMBDA suffix :
            Bind(Lower(FirstToken(suffix, "_")), LAMBDA filename :
                IF StartsWith(var_name, "ENV_FILES_") THEN {}
                ELSE IF matched_env # "" /\ matched_env # env_upper THEN {}
                ELSE IF matched_env = "" /\ ~StartsWith(var_name, "ENV_") THEN {}
                ELSE IF suffix = "" \/ filename = "" THEN {}
                ELSE {".env." \o filename})))

\* detect_file_patterns(all_env_vars, structure, environment); `order` is the order
\* in which the set of line 173 is iterated
detect_file_patterns(all_env_vars, structure, environment, order) ==
    Bind(Upper(environment), LAMBDA env_upper :
    Bind(UNION {PatternsOfVar(all_env_vars[i][1], env_upper, order) : i \in 1..Len(all_env_vars)},
         LAMBDA patterns :
        IF structure = "single" THEN <<".env">>
        ELSE IF patterns = {} THEN <<".env.app">>
        ELSE SortedSeq(patterns)))

-----------------------------------------------------------------------------
(* determine_file_structure *)

\* "auto" decided by the number of patterns alone
ResolveAutoByCount(structure, patterns, environment, environ_names) ==
    IF structure # "auto" THEN structure
    ELSE IF Len(patterns) > 1 THEN "nested"
    ELSE "flat"

\* lines 223-236: what "auto" resolves to
ResolveAuto(structure, patterns, environment, environ_names) ==
    LET has_env_specific ==
            /\ environment # ""
            /\ Bind("ENV_" \o Upper(environment) \o "_", LAMBDA prefix :
                   \E n \in environ_names : StartsWith(n, prefix))
    IN  IF structure # "auto" THEN structure
        ELSE IF Len(patterns) > 1 \/ has_env_specific THEN "nested"
        ELSE "flat"

\* lines 238-246
DirBase(base_path, env_files_path) ==
    IF env_files_path = "" THEN base_path
    ELSE IF PathIsAbs(env_files_path) THEN env_files_path
    ELSE PathJoin(base_path, env_files_path)

\* the environment directory always below .envs, override or not
EnvDirAlwaysEnvs(dir_base, environment, env_files_path) ==
    PathJoin(PathJoin(dir_base, ".envs"), environment)

\* lines 253-257
EnvDir(dir_base, environment, env_files_path) ==
    IF env_files_path = ""
    THEN PathJoin(PathJoin(dir_base, ".envs"), environment)
    ELSE PathJoin(dir_base, environment)

\* every pattern of a flat layout placed at the one file .env of the base directory
PlacePatternsOneFile(structure, patterns, environment, dir_base, env_files_path) ==
    IF structure = "single" THEN <<<<".env", PathJoin(dir_base, ".env")>>>>
    ELSE IF structure = "flat"
    THEN DictUpdate(<<>>, [i \in 1..Len(patterns) |->
                              <<patterns[i], PathJoin(dir_base, ".env")>>])
    ELSE IF structure = "nested"
    THEN DictUpdate(<<>>, [i \in 1..Len(patterns) |->
                              <<patterns[i],
                                PathJoin(EnvDir(dir_base, environment, env_files_path),
                                         patterns[i])>>])
    ELSE <<>>

\* lines 248-262: the dict file_paths
PlacePatterns(structure, patterns, environment, dir_base, env_files_path) ==
    IF structure = "single" THEN <<<<".env", PathJoin(dir_base, ".env")>>>>
    ELSE IF structure = "flat"
    THEN DictUpdate(<<>>, [i \in 1..Len(patterns) |->
                              <<patterns[i], PathJoin(dir_base, patterns[i])>>])
    ELSE IF structure = "nested"
    THEN Bind(EnvDir(dir_base, environment, env_files_path), LAMBDA env_dir :
             DictUpdate(<<>>, [i \in 1..Len(patterns) |->
                                  <<patterns[i], PathJoin(env_dir, patterns[i])>>]))
    ELSE <<>>

\* determine_file_structure(structure, patterns, environment, base_path), with
\* config.ENV_FILES_PATH (None and "" alike: no override) and the names of os.environ
determine_file_structure(structure, patterns, environment, base_path, env_files_path, environ_names) ==
    Bind(ResolveAuto(structure, patterns, environment, environ_names), LAMBDA resolved :
    Bind(DirBase(base_path, env_files_path), LAMBDA dir_base :
        PlacePatterns(resolved, patterns, environment, dir_base, env_files_path)))

-----------------------------------------------------------------------------
(* merge_env_vars_by_priority *)

\* the variable stored without the component its name begins with
GlobalPutBare(merged, key, v, format) ==
    Bind(Find(key, "_", 1), LAMBDA i : DictSet(merged, DropPrefix(key, i), v))

\* lines 286-299 and 305-315: what one variable of the global file, stripped to
\* `key`, writes into merged
GlobalPut(merged, key, v, format) ==
    Bind(parse_all_in_one_secret(v, format), LAMBDA parsed :
        LET renamed == [i \in 1..Len(parsed) |->
                           <<IF StartsWith(parsed[i][1], Upper(key) \o "_")
                             THEN parsed[i][1]
                             ELSE key \o "_" \o parsed[i][1],
                             parsed[i][2]>>]
        IN  IF parsed # <<>>
            THEN IF Contains(key, "_") THEN DictSet(merged, key, v)
                 ELSE DictUpdate(merged, renamed)
            ELSE DictSet(merged, key, v))

\* line 283: k is scoped to one of the candidate environments
IsEnvScoped(k, env_upper) ==
    \E e \in {env_upper} \cup FallbackEnvs : e # "" /\ StartsWith(k, "ENV_" \o e \o "_")

\* lines 275-299: the loop over the base variables (ENV_X)
RECURSIVE GlobalBase(_, _, _, _, _)
GlobalBase(all_env_vars, i, env_upper, format, merged) ==
    IF i > Len(all_env_vars) THEN merged
    ELSE LET k == all_env_vars[i][1]
             v == all_env_vars[i][2]
         IN  IF ~StartsWith(k, "ENV_") \/ StartsWith(k, "ENV_FILES_") \/ k = "ENV"
                \/ IsEnvScoped(k, env_upper)
             THEN GlobalBase(all_env_vars, i + 1, env_upper, format, merged)
             ELSE Bind(GlobalPut(merged, DropPrefix(k, 4), v, format), LAMBDA put :
                      GlobalBase(all_env_vars, i + 1, env_upper, format, put))

\* lines 302-315: the loop over the overrides of the active environment (ENV_PROD_X)
RECURSIVE GlobalOverrides(_, _, _, _, _)
GlobalOverrides(all_env_vars, i, env_upper, format, merged) ==
    LET prefix == "ENV_" \o env_upper \o "_"
    IN  IF i > Len(all_env_vars) THEN merged
        ELSE IF ~StartsWith(all_env_vars[i][1], prefix)
        THEN GlobalOverrides(all_env_vars, i + 1, env_upper, format, merged)
        ELSE Bind(GlobalPut(merged, DropPrefix(all_env_vars[i][1], Len(prefix)),
                            all_env_vars[i][2], format), LAMBDA put :
                 GlobalOverrides(all_env_vars, i + 1, env_upper, format, put))

\* the two loops of the global file in the other order
MergeGlobalBaseLast(all_env_vars, env_upper, format) ==
    GlobalBase(all_env_vars, 1, env_upper, format,
               GlobalOverrides(all_env_vars, 1, env_upper, format, <<>>))

\* lines 272-316: pattern == ".env"
MergeGlobal(all_env_vars, env_upper, format) ==
    GlobalOverrides(all_env_vars, 1, env_upper, format,
                    GlobalBase(all_env_vars, 1, env_upper, format, <<>>))

\* lines 329-332 and 348-351: the individual variables under one prefix
RECURSIVE PutIndividual(_, _, _, _)
PutIndividual(all_env_vars, i, prefix, merged) ==
    IF i > Len(all_env_vars) THEN merged
    ELSE IF StartsWith(all_env_vars[i][1], prefix)
    THEN Bind(DictSet(merged, DropPrefix(all_env_vars[i][1], Len(prefix)), all_env_vars[i][2]),
              LAMBDA put : PutIndividual(all_env_vars, i + 1, prefix, put))
    ELSE PutIndividual(all_env_vars, i + 1, prefix, merged)

\* lines 336-344 and 355-362: the blob stored under blob_key
PutBlob(all_env_vars, blob_key, file_base, format, merged) ==
    IF ~HasKey(all_env_vars, blob_key) THEN merged
    ELSE Bind(DictGet(all_env_vars, blob_key), LAMBDA raw :
         Bind(parse_all_in_one_secret(raw, format), LAMBDA parsed :
             LET cleaned == [i \in 1..Len(parsed) |->
                                <<IF StartsWith(parsed[i][1], file_base \o "_")
                                  THEN DropPrefix(parsed[i][1], Len(file_base) + 1)
                                  ELSE parsed[i][1],
                                  parsed[i][2]>>]
             IN  IF parsed # <<>> THEN DictUpdate(merged, cleaned)
                 ELSE IF Strip(raw) # "" THEN DictSet(merged, file_base, raw)
                 ELSE merged))

\* the four stages of lines 327-362
StageA(all_env_vars, file_base, merged) ==
    Bind(merged, LAMBDA m : PutIndividual(all_env_vars, 1, "ENV_" \o file_base \o "_", m))

StageB(all_env_vars, file_base, format, merged) ==
    Bind(merged, LAMBDA m : PutBlob(all_env_vars, "ENV_" \o file_base, file_base, format, m))

StageC(all_env_vars, env_upper, file_base, merged) ==
    Bind(merged, LAMBDA m :
        PutIndividual(all_env_vars, 1, "ENV_" \o env_upper \o "_" \o file_base \o "_", m))

StageD(all_env_vars, env_upper, file_base, format, merged) ==
    Bind(merged, LAMBDA m :
        PutBlob(all_env_vars, "ENV_" \o env_upper \o "_" \o file_base, file_base, format, m))

\* the base blob applied after the stages of the environment
MergeComponentBlobLast(all_env_vars, env_upper, file_base, format) ==
    StageB(all_env_vars, file_base, format,
           StageD(all_env_vars, env_upper, file_base, format,
                  StageC(all_env_vars, env_upper, file_base,
                         StageA(all_env_vars, file_base, <<>>))))

\* lines 318-364: a patterned file (.env.component)
MergeComponent(all_env_vars, env_upper, file_base, format) ==
    StageD(all_env_vars, env_upper, file_base, format,
           StageC(all_env_vars, env_upper, file_base,
                  StageB(all_env_vars, file_base, format,
                         StageA(all_env_vars, file_base, <<>>))))

\* merge_env_vars_by_priority(all_env_vars, environment, pattern), with
\* config.ENV_FILES_FORMAT
merge_env_vars_by_priority(all_env_vars, environment, pattern, format) ==
    Bind(all_env_vars, LAMBDA vars_ : Bind(Upper(environment), LAMBDA env_upper :
        IF pattern = ".env"
        THEN MergeGlobal(vars_, env_upper, format)
        ELSE Bind(Upper(Replace(pattern, ".env.", "")), LAMBDA file_base :
                 MergeComponent(vars_, env_upper, file_base, format))))

-----------------------------------------------------------------------------
(* merge_raw_env *)

KvLine(k, v) == k \o "=" \o v

\* lines 126-142: the pass over the lines of the base; [lines, keys]
RECURSIVE RawBaseLines(_, _, _, _)
RawBaseLines(lines, i, overrides, acc) ==
    IF i > Len(lines) THEN acc
    ELSE Bind(acc, LAMBDA a : Bind(lines[i], LAMBDA line : Bind(Strip(line), LAMBDA stripped :
         Bind(Strip(FirstToken(stripped, "=")), LAMBDA key :
             IF stripped = "" \/ StartsWith(stripped, "#")
             THEN RawBaseLines(lines, i + 1, overrides, [a EXCEPT !.lines = Append(@, line)])
             ELSE IF Contains(stripped, "=") /\ HasKey(overrides, key)
             THEN RawBaseLines(lines, i + 1, overrides,
                               [lines |-> Append(a.lines, KvLine(key, DictGet(overrides, key))),
                                keys |-> a.keys \cup {key}])
             ELSE RawBaseLines(lines, i + 1, overrides,
                               [a EXCEPT !.lines = Append(@, line)])))))

\* lines 145-151: the keys the base did not hold, appended
RECURSIVE RawAppendNew(_, _, _)
RawAppendNew(overrides, i, acc) ==
    IF i > Len(overrides) THEN acc
    ELSE Bind(acc, LAMBDA a :
         LET k == overrides[i][1]
             sep == IF a.keys = {} /\ a.lines # <<>> /\ Strip(a.lines[Len(a.lines)]) # ""
                    THEN <<"">>
                    ELSE <<>>
         IN  IF k \in a.keys THEN RawAppendNew(overrides, i + 1, a)
             ELSE RawAppendNew(overrides, i + 1,
                               [lines |-> a.lines \o sep \o <<KvLine(k, overrides[i][2])>>,
                                keys |-> a.keys \cup {k}]))

\* merge_raw_env without the pass over the base: the overrides appended to it
MergeRawAppendOnly(base_content, overrides) ==
    IF base_content = ""
    THEN Join([i \in 1..Len(overrides) |-> KvLine(overrides[i][1], overrides[i][2])], "\n")
    ELSE Join(RawAppendNew(overrides, 1, [lines |-> SplitLines(base_content), keys |-> {}]).lines,
              "\n")

\* merge_raw_env(base_content, overrides)
merge_raw_env(base_content, overrides) ==
    Bind(base_content, LAMBDA base : Bind(overrides, LAMBDA over :
        IF base = ""
        THEN Join([i \in 1..Len(over) |-> KvLine(over[i][1], over[i][2])], "\n")
        ELSE Bind(SplitLines(base), LAMBDA lines :
                 Join(RawAppendNew(over, 1,
                                   RawBaseLines(lines, 1, over, [lines |-> <<>>, keys |-> {}])).lines,
                      "\n"))))

-----------------------------------------------------------------------------
(* detect_environment_secrets *)

\* os.environ.get(name) or ""
EnvironGet(env, name) == IF HasKey(env, name) THEN DictGet(env, name) ELSE ""

\* lines 374-377
RawOverrides(env) ==
    SelectSeq(env, LAMBDA kv : StartsWith(kv[1], "ENV_") /\ ~StartsWith(kv[1], "ENV_FILES_"))

\* a configured list replaces the discovered patterns under every structure but single
SecretPatternsListFirst(env, cfg, order) ==
    IF cfg.ENV_FILES_STRUCTURE = "single" THEN <<".env">>
    ELSE IF cfg.ENV_FILES_PATTERNS # <<>>
    THEN SelectSeq([i \in 1..Len(cfg.ENV_FILES_PATTERNS) |-> Strip(cfg.ENV_FILES_PATTERNS[i])],
                   LAMBDA x : x # "")
    ELSE detect_file_patterns(RawOverrides(env), cfg.ENV_FILES_STRUCTURE, cfg.ENVIRONMENT, order)

\* lines 379-385; cfg.ENV_FILES_PATTERNS is the list config.py:66 builds
SecretPatterns(env, cfg, order) ==
    IF cfg.ENV_FILES_STRUCTURE = "single" THEN <<".env">>
    ELSE IF cfg.ENV_FILES_PATTERNS # <<>> /\ cfg.ENV_FILES_STRUCTURE # "auto"
    THEN SelectSeq([i \in 1..Len(cfg.ENV_FILES_PATTERNS) |-> Strip(cfg.ENV_FILES_PATTERNS[i])],
                   LAMBDA x : x # "")
    ELSE Bind(RawOverrides(env), LAMBDA raw_overrides :
             detect_file_patterns(raw_overrides, cfg.ENV_FILES_STRUCTURE, cfg.ENVIRONMENT, order))

\* lines 389-409: the content of one pattern
SecretContent(env, cfg, pattern) ==
    Bind(RawOverrides(env), LAMBDA raw_overrides :
    Bind(merge_env_vars_by_priority(raw_overrides, cfg.ENVIRONMENT, pattern, cfg.ENV_FILES_FORMAT),
         LAMBDA overrides :
        IF pattern = ".env"
        THEN merge_raw_env(EnvironGet(env, "ENV"), overrides)
        ELSE Bind("ENV_" \o Upper(Replace(pattern, ".env.", "")), LAMBDA comp_base_key :
                 merge_raw_env(IF HasKey(raw_overrides, comp_base_key)
                                  /\ ~StartsWith(Strip(DictGet(raw_overrides, comp_base_key)), "{")
                               THEN DictGet(raw_overrides, comp_base_key)
                               ELSE "",
                               overrides))))

\* detect_environment_secrets(): pattern -> raw file content
detect_environment_secrets(env, cfg, order) ==
    Bind(SecretPatterns(env, cfg, order), LAMBDA patterns :
        DictUpdate(<<>>, [i \in 1..Len(patterns) |->
                             <<patterns[i], SecretContent(env, cfg, patterns[i])>>]))

-----------------------------------------------------------------------------
(* The inputs of a run: the ENV* variables of the process and the configuration *)

\* how many ENV* variables the process environment of a run holds at most
MaxVars == 3

\* the variables a run may find in os.environ
VarPool ==
    << <<"ENV_APP_PORT", "8000">>,
       <<"ENV_APP", "PORT=8500\nAPP_HOST=h1">>,
       <<"ENV_APP", "{\"PORT\": \"8600\", \"MODE\": \"json\"}">>,
       <<"ENV_APP", "hello">>,
       <<"ENV_PROD_APP_PORT", "9000">>,
       <<"ENV_PROD_APP", "PORT=9500,SECRET=x">>,
       <<"ENV_STAGING_APP_PORT", "7000">>,
       <<"ENV_STAGING", "SECRET=s">>,
       <<"ENV_DB_HOST", "db">>,
       <<"ENV_PROD_DB", "HOST: h2\nPORT: 5432">>,
       <<"ENV_TEST_EU_DB_HOST", "eu">>,
       <<"ENV_FILES_STRUCTURE", "flat">>,
       <<"ENV", "# base\nA=1">> >>

\* the sequences of at most n entries of pool, in pool order or reversed, with
\* distinct names
RECURSIVE Pick(_, _)
Pick(pool, idx) ==
    IF idx = {} THEN <<>>
    ELSE LET m == CHOOSE i \in idx : \A j \in idx : i <= j
         IN  <<pool[m]>> \o Pick(pool, idx \ {m})

Reversed(q) == [i \in 1..Len(q) |-> q[Len(q) + 1 - i]]

Environs(pool, n) ==
    LET sets == {I \in SUBSET (1..Len(pool)) :
                    /\ Cardinality(I) <= n
                    /\ \A i, j \in I : i # j => pool[i][1] # pool[j][1]}
    IN  {Pick(pool, I) : I \in sets} \cup {Reversed(Pick(pool, I)) : I \in sets}

\* config.py:9-68, the fields env_manager.py reads
DefaultConfig ==
    [ENVIRONMENT |-> "dev", GIT_SUBDIR |-> "/root/proj/", ENV_FILES_GENERATE |-> TRUE,
     ENV_FILES_STRUCTURE |-> "auto", ENV_FILES_PATH |-> "", ENV_FILES_PATTERNS |-> <<>>,
     ENV_FILES_CREATE_ROOT |-> FALSE, ENV_FILES_FORMAT |-> "auto", USE_SUDO |-> FALSE]

Environments == {"prod", "staging", "test_eu", ""}
Structures == {"auto", "single", "flat", "nested", "custom"}
OverridePaths == {"", "/etc/secrets", "conf"}
BasePaths == {"/root/proj/", "/srv/app"}

\* lines 438-442: the dict all_env_vars of generate_env_files
AllEnvVars(env) ==
    SelectSeq(env, LAMBDA kv : (StartsWith(kv[1], "ENV_") \/ kv[1] = "ENV")
                               /\ ~StartsWith(kv[1], "ENV_FILES_"))

\* Orders in which a set of str may be iterated: str hashes differ from one process
\* to the next, so any order can occur.  The loop of lines 174-183 stops at the
\* first match, so only the relative order of two members matters to it; these two
\* orders give every pair both ways.
HashOrders(S) == {SortedSeq(S), Reversed(SortedSeq(S))}

\* main before handle_connection is called: whether a process pool exists, the direct
\* calls of deploy_single_host made, the futures the as_completed loop has taken, the
\* lines appended to the file GITHUB_OUTPUT names (by main and by the workers), and the
\* exit status once the process has exited, and the temporary private-key files of the
\* run that exist on the local disk
NotStarted ==
    [pool |-> FALSE, direct |-> 0, seen |-> {}, output |-> <<>>, exit |-> "", keyFiles |-> {}]

Idle ==
    /\ env_file_data = <<>> /\ file_paths = <<>> /\ todo = <<>> /\ created = <<>>
    /\ shell = [state |-> "idle"] /\ remote = <<>> /\ remoteDirs = {} /\ cmdLog = <<>>
    /\ raised = "" /\ stages = <<>>
    /\ futures = <<>> /\ mainProc = NotStarted

Quiet == UNCHANGED <<futures, mainProc, environ, config, env_file_data, file_paths, todo, created, shell,
                     remote, remoteDirs, cmdLog, raised, stages, fn, args>>

-----------------------------------------------------------------------------
(* merge_env_vars_by_priority called on the variables of a run *)

InitMerge ==
    /\ fn = "merge_env_vars_by_priority"
    /\ pc = "call"
    /\ environ \in Environs(VarPool, MaxVars)
    /\ \E e \in Environments \ {"test_eu"}, f \in {"auto", "env"} :
          config = [DefaultConfig EXCEPT !.ENVIRONMENT = e, !.ENV_FILES_FORMAT = f]
    /\ \/ args = [pattern |-> ".env", all_env_vars |-> AllEnvVars(environ)]
       \/ \E p \in {".env", ".env.app", ".env.db"} :
             args = [pattern |-> p, all_env_vars |-> RawOverrides(environ)]
    /\ hashOrder = <<>>
    /\ ret = <<>>
    /\ Idle

MergeCall ==
    /\ fn = "merge_env_vars_by_priority" /\ pc = "call"
    /\ ret' = merge_env_vars_by_priority(args.all_env_vars, config.ENVIRONMENT, args.pattern,
                                         config.ENV_FILES_FORMAT)
    /\ pc' = "return"
    /\ hashOrder' = hashOrder
    /\ Quiet

SpecMerge == InitMerge /\ [][MergeCall]_vars

-----------------------------------------------------------------------------
(* detect_file_patterns called on the variables of a run *)

InitDetect ==
    /\ fn = "detect_file_patterns"
    /\ pc = "call"
    /\ environ \in Environs(VarPool, MaxVars)
    /\ \E e \in Environments, st \in Structures :
          /\ config = [DefaultConfig EXCEPT !.ENVIRONMENT = e, !.ENV_FILES_STRUCTURE = st]
          /\ args = [all_env_vars |-> RawOverrides(environ), structure |-> st, environment |-> e]
    /\ hashOrder = <<>>
    /\ ret = <<>>
    /\ Idle

DetectCall ==
    /\ fn = "detect_file_patterns" /\ pc = "call"
    /\ \E order \in HashOrders(EnvCandidates(Upper(args.environment))) :
          /\ hashOrder' = order
          /\ ret' = detect_file_patterns(args.all_env_vars, args.structure, args.environment, order)
    /\ pc' = "return"
    /\ Quiet

SpecDetect == InitDetect /\ [][DetectCall]_vars

-----------------------------------------------------------------------------
(* determine_file_structure called on the patterns of a run *)

\* variables that decide the layout: scoped to the active environment or not
LayoutPool ==
    << <<"ENV_APP_PORT", "8000">>,
       <<"ENV_PROD_APP_PORT", "9000">>,
       <<"ENV_PROD", "K=1">>,
       <<"ENV_STAGING_APP_PORT", "7000">>,
       <<"ENV_DB_HOST", "db">> >>

InitLayout ==
    /\ fn = "determine_file_structure"
    /\ pc = "call"
    /\ environ \in Environs(LayoutPool, MaxVars)
    /\ \E e \in Environments, st \in Structures, o \in OverridePaths, b \in BasePaths :
          /\ config = [DefaultConfig EXCEPT !.ENVIRONMENT = e, !.ENV_FILES_STRUCTURE = st,
                                            !.ENV_FILES_PATH = o, !.GIT_SUBDIR = b]
          /\ \E ps \in {<<".env.app">>, <<".env.app", ".env.db">>, <<".env">>} :
                args = [structure |-> st, patterns |-> ps, environment |-> e, base_path |-> b]
    /\ hashOrder = <<>>
    /\ ret = <<>>
    /\ Idle

LayoutCall ==
    /\ fn = "determine_file_structure" /\ pc = "call"
    /\ ret' = determine_file_structure(args.structure, args.patterns, args.environment,
                                       args.base_path, config.ENV_FILES_PATH,
                                       DictKeys(environ))
    /\ pc' = "return"
    /\ hashOrder' = hashOrder
    /\ Quiet

SpecLayout == InitLayout /\ [][LayoutCall]_vars

-----------------------------------------------------------------------------
(* detect_environment_secrets called on the variables of a run *)

\* the variables of such a run: a component blob in each of its forms, a template
\* that holds a key twice, and variables that override them
SecretsPool ==
    << <<"ENV_APP_PORT", "8000">>,
       <<"ENV_APP", "PORT=8500\nAPP_HOST=h1">>,
       <<"ENV_APP", "{\"PORT\": \"8600\", \"MODE\": \"json\"}">>,
       <<"ENV_APP", "PORT: 8700\nMODE: yaml">>,
       <<"ENV_APP", "hello">>,
       <<"ENV_PROD_APP_PORT", "9000">>,
       <<"ENV_DB_HOST", "db">>,
       <<"ENV_A", "3">>,
       <<"ENV", "# base\nA=1\nA=2">> >>

\* config.py:65-66: ENV_FILES_PATTERNS unset, or ".env.web, .env.db ,"
PatternLists == {<<>>, <<".env.web", " .env.db ", "">>}

InitSecrets ==
    /\ fn = "detect_environment_secrets"
    /\ pc = "call"
    /\ environ \in Environs(SecretsPool, MaxVars)
    /\ \E e \in {"prod", ""}, st \in Structures, ps \in PatternLists :
          config = [DefaultConfig EXCEPT !.ENVIRONMENT = e, !.ENV_FILES_STRUCTURE = st,
                                         !.ENV_FILES_PATTERNS = ps]
    /\ args = <<>>
    /\ hashOrder = <<>>
    /\ ret = <<>>
    /\ Idle

SecretsCall ==
    /\ fn = "detect_environment_secrets" /\ pc = "call"
    /\ \E order \in HashOrders(EnvCandidates(Upper(config.ENVIRONMENT))) :
          /\ hashOrder' = order
          /\ ret' = detect_environment_secrets(environ, config, order)
    /\ pc' = "return"
    /\ Quiet

SpecSecrets == InitSecrets /\ [][SecretsCall]_vars

-----------------------------------------------------------------------------
(* parse_all_in_one_secret called on the blobs of a run *)

\* the blobs: empty, free text, ENV text with every delimiter, with comments,
\* quotes and a repeated key, JSON and YAML documents, documents the libraries
\* reject, and the path of a local file
ParsePool ==
    { "",
      "hello",
      "   ",
      "A=1",
      "A=1,B=2 C=3 , D=4\nE=5",
      "# C=0\nA='x y' ,\n  # D=9\nB=\"q\"\nA=2",
      "A=\"x, y\", \nB=k=v",
      "A=\"",
      "A=1\t,B=2 ,, C=\"\"x\"\"",
      "{\"A\": \"1\", \"B\": 2}",
      "{A=1, B=2}",
      "{\"A\" 1}",
      "A: 1\nB: x",
      "A: 1\nB=2",
      "/run/secrets/app.env" }

\* the hints of config.py:68 and one that names no format
FormatHints == {"auto", "json", "yaml", "env", "toml"}

\* a hinted parse whose library raises lets the exception out
ParseOutcomeHintUnhandled(content, format_hint, strip_quotes) ==
    Bind(Replace(Strip(content), "\\n", "\n"), LAMBDA processed_content :
        IF content # "" /\ format_hint = "json" /\ ~JsonLoads(processed_content).ok
        THEN [raised |-> "JSONDecodeError", value |-> <<>>]
        ELSE [raised |-> "", value |-> ParseSecret(content, format_hint, strip_quotes)])

\* lines 13-114 as a call: every library call stands in a try block whose handler
\* is `except Exception: pass`, so the call ends by returning
ParseOutcome(content, format_hint, strip_quotes) ==
    [raised |-> "", value |-> ParseSecret(content, format_hint, strip_quotes)]

InitParse ==
    /\ fn = "parse_all_in_one_secret"
    /\ pc = "call"
    /\ \E c \in ParsePool, h \in FormatHints, q \in BOOLEAN :
          \* a flow mapping is outside the modelled fragment of yaml.safe_load
          /\ ~(h = "yaml" /\ StartsWith(c, "{"))
          /\ args = [secret_content |-> c, format_hint |-> h, strip_quotes |-> q]
    /\ environ = <<>> /\ config = DefaultConfig
    /\ hashOrder = <<>>
    /\ ret = <<>>
    /\ Idle

ParseCall ==
    /\ fn = "parse_all_in_one_secret" /\ pc = "call"
    /\ \E out \in {ParseOutcome(args.secret_content, args.format_hint, args.strip_quotes)} :
          /\ raised' = out.raised
          /\ ret' = out.value
          /\ pc' = IF out.raised = "" THEN "return" ELSE "raised"
    /\ UNCHANGED <<futures, mainProc, environ, config, hashOrder, fn, args, env_file_data, file_paths, todo,
                   created, shell, remote, remoteDirs, cmdLog, stages>>

SpecParse == InitParse /\ [][ParseCall]_vars

-----------------------------------------------------------------------------
(* base64, as create_env_file and the remote `base64 -d` use it *)

B64Alphabet == "ABCDEFGHIJKLMNOPQRSTUVWXYZabcdefghijklmnopqrstuvwxyz0123456789+/"

B64Char(n) == CharAt(B64Alphabet, n + 1)

B64Value == [c \in {CharAt(B64Alphabet, i) : i \in 1..Len(B64Alphabet)} |->
                IndexIn(B64Alphabet, c) - 1]

\* s.encode("utf-8"): a code point below 128 is one byte
Utf8Encode(s) == [i \in 1..Len(s) |-> Ord(CharAt(s, i))]

RECURSIVE Utf8Decode(_)
Utf8Decode(b) == IF b = <<>> THEN "" ELSE Chr(b[1]) \o Utf8Decode(Tail(b))

\* base64.b64encode(bytes).decode("utf-8")
RECURSIVE B64EncodeBytes(_)
B64EncodeBytes(b) ==
    IF b = <<>> THEN ""
    ELSE IF Len(b) = 1
    THEN LET n == b[1] * 16
         IN  B64Char(n \div 64) \o B64Char(n % 64) \o "=="
    ELSE IF Len(b) = 2
    THEN LET n == (b[1] * 256 + b[2]) * 4
         IN  B64Char(n \div 4096) \o B64Char((n \div 64) % 64) \o B64Char(n % 64) \o "="
    ELSE LET n == b[1] * 65536 + b[2] * 256 + b[3]
         IN  B64Char(n \div 262144) \o B64Char((n \div 4096) % 64)
                \o B64Char((n \div 64) % 64) \o B64Char(n % 64)
                \o B64EncodeBytes(SubSeq(b, 4, Len(b)))

\* base64 -d
RECURSIVE B64DecodeBytes(_)
B64DecodeBytes(s) ==
    IF Len(s) < 4 THEN <<>>
    ELSE LET v(i) == B64Value[CharAt(s, i)]
         IN  IF CharAt(s, 3) = "="
             THEN <<(v(1) * 64 + v(2)) \div 16>>
             ELSE IF CharAt(s, 4) = "="
             THEN LET n == (v(1) * 4096 + v(2) * 64 + v(3)) \div 4
                  IN  <<n \div 256, n % 256>>
             ELSE LET n == v(1) * 262144 + v(2) * 4096 + v(3) * 64 + v(4)
                  IN  <<n \div 65536, (n \div 256) % 256, n % 256>>
                         \o B64DecodeBytes(DropPrefix(s, 4))

-----------------------------------------------------------------------------
(* create_env_file and the remote shell *)

\* the mode tee gives a file it creates (umask 022)
NewFileMode == "644"

\* the mode set before the file is written
BatchCmdChmodFirst(file_path, env_content) ==
    LET dir_path == PathDirname(file_path)
        encoded == B64EncodeBytes(Utf8Encode(env_content))
    IN  << [op |-> "mkdir -p", path |-> dir_path, stdin |-> ""],
           [op |-> "chmod 600", path |-> file_path, stdin |-> ""],
           [op |-> "tee", path |-> file_path, stdin |-> encoded] >>

\* lines 418-427: the batch command, as its three simple commands joined by &&
batch_cmd(file_path, env_content) ==
    LET dir_path == PathDirname(file_path)
        encoded == B64EncodeBytes(Utf8Encode(env_content))
    IN  << [op |-> "mkdir -p", path |-> dir_path, stdin |-> ""],
           [op |-> "tee", path |-> file_path, stdin |-> encoded],
           [op |-> "chmod 600", path |-> file_path, stdin |-> ""] >>

\* create_env_file(conn, file_path, env_content), called from `origin`; control
\* goes to `back` when it returns
create_env_file(origin, file_path, env_content, back) ==
    /\ created' = Append(created, [origin |-> origin, path |-> file_path,
                                   content |-> env_content])
    /\ IF env_content = ""
       THEN pc' = back /\ shell' = shell
       ELSE /\ pc' = "run_command"
            /\ shell' = [state |-> "running", call |-> Len(created) + 1, back |-> back,
                         sudo |-> config.USE_SUDO,
                         cmds |-> batch_cmd(file_path, env_content)]

ShellRunning == pc = "run_command" /\ shell.state = "running" /\ shell.cmds # <<>>

LogEntry(ok) ==
    [call |-> shell.call, op |-> Head(shell.cmds).op, path |-> Head(shell.cmds).path, ok |-> ok]

\* mkdir -p "{dir_path}" exits 0
RemoteMkdir ==
    /\ ShellRunning /\ Head(shell.cmds).op = "mkdir -p"
    /\ remoteDirs' = remoteDirs \cup {Head(shell.cmds).path}
    /\ cmdLog' = Append(cmdLog, LogEntry(TRUE))
    /\ shell' = [shell EXCEPT !.cmds = Tail(@)]
    /\ UNCHANGED <<futures, mainProc, environ, config, hashOrder, pc, fn, args, ret, env_file_data,
                   file_paths, todo, created, remote, raised, stages>>

\* echo "{encoded}" | base64 -d | tee "{file_path}" > /dev/null exits 0
RemoteWrite ==
    /\ ShellRunning /\ Head(shell.cmds).op = "tee"
    /\ PathDirname(Head(shell.cmds).path) \in remoteDirs
    /\ LET path == Head(shell.cmds).path
           data == Utf8Decode(B64DecodeBytes(Head(shell.cmds).stdin))
       IN  remote' = DictSet(remote, path,
                             [content |-> data,
                              mode |-> IF HasKey(remote, path) THEN DictGet(remote, path).mode
                                       ELSE NewFileMode])
    /\ cmdLog' = Append(cmdLog, LogEntry(TRUE))
    /\ shell' = [shell EXCEPT !.cmds = Tail(@)]
    /\ UNCHANGED <<futures, mainProc, environ, config, hashOrder, pc, fn, args, ret, env_file_data,
                   file_paths, todo, created, remoteDirs, raised, stages>>

\* chmod 600 "{file_path}" exits 0
RemoteChmod ==
    /\ ShellRunning /\ Head(shell.cmds).op = "chmod 600"
    /\ HasKey(remote, Head(shell.cmds).path)
    /\ LET path == Head(shell.cmds).path
       IN  remote' = DictSet(remote, path, [DictGet(remote, path) EXCEPT !.mode = "600"])
    /\ cmdLog' = Append(cmdLog, LogEntry(TRUE))
    /\ shell' = [shell EXCEPT !.cmds = Tail(@)]
    /\ UNCHANGED <<futures, mainProc, environ, config, hashOrder, pc, fn, args, ret, env_file_data,
                   file_paths, todo, created, remoteDirs, raised, stages>>

\* RemoteFails with the failure swallowed by create_env_file: the caller goes on
RemoteFailsContinues ==
    /\ ShellRunning
    /\ cmdLog' = Append(cmdLog, LogEntry(FALSE))
    /\ shell' = [state |-> "idle"]
    /\ pc' = shell.back
    /\ UNCHANGED <<futures, mainProc, environ, config, hashOrder, fn, args, ret, env_file_data,
                   file_paths, todo, created, remote, remoteDirs, raised, stages>>

\* a simple command exits non-zero: && runs nothing after it, the batch exits
\* non-zero and conn.run(..., warn=False) raises UnexpectedExit (connection.py:30,37)
RemoteFails ==
    /\ ShellRunning
    /\ cmdLog' = Append(cmdLog, LogEntry(FALSE))
    /\ shell' = [state |-> "idle"]
    /\ raised' = "remote write"
    /\ pc' = "gen_except"
    /\ UNCHANGED <<futures, mainProc, environ, config, hashOrder, fn, args, ret, env_file_data, file_paths,
                   todo, created, remote, remoteDirs, stages>>

\* the batch exits 0: run_command and create_env_file return
RunCommandReturns ==
    /\ pc = "run_command" /\ shell.state = "running" /\ shell.cmds = <<>>
    /\ pc' = shell.back
    /\ shell' = [state |-> "idle"]
    /\ UNCHANGED <<futures, mainProc, environ, config, hashOrder, fn, args, ret, env_file_data, file_paths,
                   todo, created, remote, remoteDirs, cmdLog, raised, stages>>

-----------------------------------------------------------------------------
(* generate_env_files *)

\* lines 438-446: the variables are classified and the contents built
GenClassify ==
    /\ pc = "gen_classify"
    /\ \E order \in HashOrders(EnvCandidates(Upper(config.ENVIRONMENT))) :
          /\ hashOrder' = order
          /\ env_file_data' = detect_environment_secrets(environ, config, order)
    /\ pc' = IF env_file_data' = <<>> THEN "gen_return" ELSE "gen_layout"
    /\ UNCHANGED <<futures, mainProc, environ, config, fn, args, ret, file_paths, todo, created, shell,
                   remote, remoteDirs, cmdLog, raised, stages>>

\* lines 449-454: the paths of all patterns together
GenLayout ==
    /\ pc = "gen_layout"
    /\ file_paths' = determine_file_structure(config.ENV_FILES_STRUCTURE,
                                              [i \in 1..Len(env_file_data) |->
                                                  env_file_data[i][1]],
                                              config.ENVIRONMENT, config.GIT_SUBDIR,
                                              config.ENV_FILES_PATH, DictKeys(environ))
    /\ todo' = env_file_data
    /\ pc' = "gen_files"
    /\ UNCHANGED <<futures, mainProc, environ, config, hashOrder, fn, args, ret, env_file_data, created,
                   shell, remote, remoteDirs, cmdLog, raised, stages>>

\* lines 456-460: one turn of the loop over env_file_data.items()
GenCreate ==
    /\ pc = "gen_files" /\ todo # <<>>
    /\ todo' = Tail(todo)
    /\ LET pattern == Head(todo)[1]
           env_content == Head(todo)[2]
       IN  IF HasKey(file_paths, pattern) /\ DictGet(file_paths, pattern) # ""
           THEN create_env_file("pattern", DictGet(file_paths, pattern), env_content,
                                "gen_files")
           ELSE UNCHANGED <<pc, created, shell>>
    /\ UNCHANGED <<futures, mainProc, environ, config, hashOrder, fn, args, ret, env_file_data, file_paths,
                   remote, remoteDirs, cmdLog, raised, stages>>

\* the loop of line 456 is exhausted
GenFilesDone ==
    /\ pc = "gen_files" /\ todo = <<>>
    /\ pc' = "gen_root"
    /\ UNCHANGED <<futures, mainProc, environ, config, hashOrder, fn, args, ret, env_file_data, file_paths,
                   todo, created, shell, remote, remoteDirs, cmdLog, raised, stages>>

\* the root file is written whatever cfg says
RootWantedAlways(cfg, root_vars) == root_vars # <<>>

\* lines 462 and 466: the conditions of the combined root file
RootWanted(cfg, root_vars) == cfg.ENV_FILES_CREATE_ROOT /\ root_vars # <<>>

\* lines 462-471: the combined root file
GenRoot ==
    /\ pc = "gen_root"
    /\ LET root_vars == merge_env_vars_by_priority(AllEnvVars(environ), config.ENVIRONMENT,
                                                   ".env", config.ENV_FILES_FORMAT)
           root_env_path == PathJoin(config.GIT_SUBDIR, ".env")
           root_content == merge_raw_env(EnvironGet(environ, "ENV"), root_vars)
       IN  IF RootWanted(config, root_vars)
           THEN create_env_file("root", root_env_path, root_content, "gen_return")
           ELSE pc' = "gen_return" /\ UNCHANGED <<created, shell>>
    /\ UNCHANGED <<futures, mainProc, environ, config, hashOrder, fn, args, ret, env_file_data, file_paths,
                   todo, remote, remoteDirs, cmdLog, raised, stages>>

\* the steps of the try block that run no remote command, by what they do
LocalSteps ==
    [gen_classify |-> "classification", gen_layout |-> "layout resolution",
     gen_root |-> "merging"]

\* a statement of lines 438-471 raises an Exception
GenRaises ==
    /\ pc \in DOMAIN LocalSteps
    /\ raised' = LocalSteps[pc]
    /\ pc' = "gen_except"
    /\ UNCHANGED <<futures, mainProc, environ, config, hashOrder, fn, args, ret, env_file_data, file_paths,
                   todo, created, shell, remote, remoteDirs, cmdLog, stages>>

\* the handler lets the exception out to deploy_single_host
GenExceptPropagates ==
    /\ pc = "gen_except"
    /\ stages' = Append(stages, [stage |-> "generate_env_files", outcome |-> "raised"])
    /\ pc' = "failed"
    /\ UNCHANGED <<futures, mainProc, environ, config, hashOrder, fn, args, ret, env_file_data, file_paths,
                   todo, created, shell, remote, remoteDirs, cmdLog, raised>>

\* lines 475-480: the handler logs the exception and the function returns
GenExcept ==
    /\ pc = "gen_except"
    /\ raised' = ""
    /\ stages' = Append(stages, [stage |-> "generate_env_files",
                                 outcome |-> "continued after " \o raised])
    /\ pc' = "copy_artifacts"
    /\ UNCHANGED <<futures, mainProc, environ, config, hashOrder, fn, args, ret, env_file_data, file_paths,
                   todo, created, shell, remote, remoteDirs, cmdLog>>

\* lines 446 and 473: the function returns from the try block
GenReturn ==
    /\ pc = "gen_return"
    /\ stages' = Append(stages, [stage |-> "generate_env_files", outcome |-> "ok"])
    /\ pc' = "copy_artifacts"
    /\ UNCHANGED <<futures, mainProc, environ, config, hashOrder, fn, args, ret, env_file_data, file_paths,
                   todo, created, shell, remote, remoteDirs, cmdLog, raised>>

-----------------------------------------------------------------------------
(* deploy_single_host, from clone_repo on *)

\* the variables of a deployment; ENV_FILES_* are read into config and skipped by
\* every loop of env_manager.py
DriverPool ==
    << <<"ENV_APP_PORT", "8000">>,
       <<"ENV_PROD_APP", "PORT=9500,SECRET=x">>,
       <<"ENV_DB_HOST", "db">>,
       <<"ENV_STAGING", "SECRET=s">>,
       <<"ENV", "# base\nA=1">> >>

DriverEnvirons ==
    {Pick(DriverPool, I) : I \in {J \in SUBSET (1..Len(DriverPool)) : Cardinality(J) <= MaxVars}}

InitDriver ==
    /\ fn = "deploy_single_host"
    /\ pc = "clone_repo"
    /\ environ \in DriverEnvirons
    /\ \/ \E e \in {"prod", "staging"}, st \in Structures, o \in {"", "/etc/secrets"},
             r \in BOOLEAN :
             config = [DefaultConfig EXCEPT !.ENVIRONMENT = e, !.ENV_FILES_STRUCTURE = st,
                                            !.ENV_FILES_PATH = o,
                                            !.ENV_FILES_CREATE_ROOT = r]
       \/ \E st \in {"flat", "nested"} :
             config = [DefaultConfig EXCEPT !.ENVIRONMENT = "prod", !.ENV_FILES_STRUCTURE = st,
                                            !.ENV_FILES_PATTERNS = <<".env", ".env.app">>,
                                            !.ENV_FILES_CREATE_ROOT = TRUE]
       \/ config = [DefaultConfig EXCEPT !.ENV_FILES_GENERATE = FALSE]
    /\ args = <<>> /\ ret = <<>> /\ hashOrder = <<>>
    /\ Idle

StageEnds(outcome, next) ==
    /\ stages' = Append(stages, [stage |-> pc, outcome |-> outcome])
    /\ pc' = next

\* orchestrator.py:76-78
CloneRepo ==
    /\ pc = "clone_repo"
    /\ StageEnds("ok", IF config.ENV_FILES_GENERATE THEN "gen_classify" ELSE "copy_artifacts")
    /\ remoteDirs' = remoteDirs \cup {RStripChars(config.GIT_SUBDIR, {"/"})}
    /\ UNCHANGED <<futures, mainProc, environ, config, hashOrder, fn, args, ret, env_file_data, file_paths,
                   todo, created, shell, remote, cmdLog, raised>>

\* orchestrator.py:80
CopyArtifacts ==
    /\ pc = "copy_artifacts"
    /\ StageEnds("ok", "deploy")
    /\ UNCHANGED <<futures, mainProc, environ, config, hashOrder, fn, args, ret, env_file_data, file_paths,
                   todo, created, shell, remote, remoteDirs, cmdLog, raised>>

\* orchestrator.py:82-86
Deploy ==
    /\ pc = "deploy"
    /\ StageEnds("ok", "done")
    /\ UNCHANGED <<futures, mainProc, environ, config, hashOrder, fn, args, ret, env_file_data, file_paths,
                   todo, created, shell, remote, remoteDirs, cmdLog, raised>>

\* clone_repo, copy_artifacts or deploy raises: deploy_single_host has no handler
StageRaises ==
    /\ pc \in {"clone_repo", "copy_artifacts", "deploy"}
    /\ StageEnds("raised", "failed")
    /\ UNCHANGED <<futures, mainProc, environ, config, hashOrder, fn, args, ret, env_file_data, file_paths,
                   todo, created, shell, remote, remoteDirs, cmdLog, raised>>

Next ==
    \/ CloneRepo
    \/ GenClassify
    \/ GenLayout
    \/ GenCreate
    \/ GenFilesDone
    \/ RemoteMkdir
    \/ RemoteWrite
    \/ RemoteChmod
    \/ RemoteFails
    \/ RunCommandReturns
    \/ GenRoot
    \/ GenRaises
    \/ GenExcept
    \/ GenReturn
    \/ CopyArtifacts
    \/ Deploy
    \/ StageRaises

Spec == InitDriver /\ [][Next]_vars

-----------------------------------------------------------------------------
(* deploy_single_host with the combined root file: component variables and blobs of
   the same scope, enumerated in either order *)

RootPool ==
    << <<"ENV_APP_PORT", "8000">>,
       <<"ENV_APP", "PORT=8500\nAPP_HOST=h1">>,
       <<"ENV_PROD_APP_PORT", "9000">>,
       <<"ENV_PROD_APP", "PORT=9500,SECRET=x">>,
       <<"ENV_DB_HOST", "db">>,
       <<"ENV", "# base\nA=1">> >>

\* orchestrator.py:76-78 with ENV_FILES_CREATE_ROOT=true, as in
\* test_env_exhaustive_create_root_aggregated
InitRoot ==
    /\ fn = "deploy_single_host"
    /\ pc = "clone_repo"
    /\ environ \in Environs(RootPool, MaxVars)
    /\ \E e \in {"prod", "dev"}, st \in {"nested", "flat"} :
          config = [DefaultConfig EXCEPT !.ENVIRONMENT = e, !.ENV_FILES_STRUCTURE = st,
                                         !.ENV_FILES_CREATE_ROOT = TRUE]
    /\ args = <<>> /\ ret = <<>> /\ hashOrder = <<>>
    /\ Idle

SpecRoot == InitRoot /\ [][Next]_vars

-----------------------------------------------------------------------------
(* merge_raw_env called on a template and a mapping of overrides *)

\* templates: empty, with comments, blank lines, spaces around "=", a repeated key,
\* a commented-out key, a line that is no pair, blank lines at the end
BasePool ==
    { "",
      "A=1",
      "# top\nA=1\n\nB = 2\n# C=3",
      "  A=1\nA=2\nexport D=4",
      "X\n",
      "B=2\n#end\n\n",
      "\n",
      "C=3\n  # note\nB=2\nA=1" }

OverridesPool ==
    { <<>>,
      << <<"A", "9">> >>,
      << <<"C", "7">>, <<"A", "9">> >>,
      << <<"A", "9">>, <<"B", "8">>, <<"C", "7">> >>,
      << <<"B", "x y">> >>,
      << <<"Z", "">>, <<"D", "4">> >>,
      << <<"X", "1">> >> }

InitRaw ==
    /\ fn = "merge_raw_env"
    /\ pc = "call"
    /\ \E b \in BasePool, o \in OverridesPool : args = [base_content |-> b, overrides |-> o]
    /\ config = DefaultConfig
    /\ environ = <<>> /\ ret = "" /\ hashOrder = <<>>
    /\ Idle

RawCall ==
    /\ fn = "merge_raw_env" /\ pc = "call"
    /\ ret' = merge_raw_env(args.base_content, args.overrides)
    /\ pc' = "return"
    /\ UNCHANGED hashOrder
    /\ Quiet

SpecRaw == InitRaw /\ [][RawCall]_vars

-----------------------------------------------------------------------------
(* create_env_file called on its own, with the values a caller may pass *)

\* a Python value with its type: the content argument is annotated str, and Python
\* does not check the annotation
Str(text) == [type |-> "str", value |-> text]
Dict(items) == [type |-> "dict", value |-> items]

ContentArgs ==
    {Str(""), Str("KEY=val$with$dollars"), Str("A=1\nB=two words"),
     Dict(<<>>), Dict(<< <<"KEY", "val$with$dollars">> >>),
     Dict(<< <<"A", "1">>, <<"B", "two words">> >>)}

PathArgs == {".env", "/srv/app/.env", "/srv/app/envs/prod/.env.app", "deploy/.env.db"}

InitCreate ==
    /\ fn = "create_env_file"
    /\ pc = "call"
    /\ \E sudo \in BOOLEAN : config = [DefaultConfig EXCEPT !.USE_SUDO = sudo]
    /\ \E f \in PathArgs, c \in ContentArgs : args = [file_path |-> f, env_content |-> c]
    /\ environ = <<>> /\ ret = <<>> /\ hashOrder = <<>>
    /\ Idle

\* lines 414-428: `not env_content` holds of "" and of {}; line 420 calls
\* env_content.encode, which a str has and a dict has not (AttributeError)
CreateCall ==
    /\ fn = "create_env_file" /\ pc = "call"
    /\ IF args.env_content.type = "str"
       THEN /\ create_env_file("call", args.file_path, args.env_content.value, "return")
            /\ UNCHANGED raised
       ELSE /\ pc' = IF args.env_content.value = <<>> THEN "return" ELSE "raised"
            /\ raised' = IF args.env_content.value = <<>> THEN "" ELSE "AttributeError"
            /\ UNCHANGED <<created, shell>>
    /\ UNCHANGED <<futures, mainProc, environ, config, hashOrder, fn, args, ret, env_file_data,
                   file_paths, todo, remote, remoteDirs, cmdLog, stages>>

\* a simple command of the batch exits non-zero: run_command raises (connection.py:30,37)
\* and create_env_file has no handler
CreateRemoteFails ==
    /\ fn = "create_env_file" /\ ShellRunning
    /\ cmdLog' = Append(cmdLog, LogEntry(FALSE))
    /\ shell' = [state |-> "idle"]
    /\ raised' = "UnexpectedExit"
    /\ pc' = "raised"
    /\ UNCHANGED <<futures, mainProc, environ, config, hashOrder, fn, args, ret, env_file_data,
                   file_paths, todo, created, remote, remoteDirs, stages>>

NextCreate ==
    \/ CreateCall
    \/ RemoteMkdir
    \/ RemoteWrite
    \/ RemoteChmod
    \/ CreateRemoteFails
    \/ RunCommandReturns

SpecCreate == InitCreate /\ [][NextCreate]_vars

-----------------------------------------------------------------------------
(* main and handle_connection: the fan-out over the hosts of REMOTE_HOST *)

\* Python's None, for a configuration variable that is not set: no input string equals it
None == "<None>"

\* str.split(sep)
RECURSIVE Split(_, _)
Split(s, sep) ==
    Bind(s, LAMBDA t :
        Bind(Find(t, sep, 1), LAMBDA i :
            IF i = 0 THEN <<t>>
            ELSE <<SubSeq(t, 1, i - 1)>> \o Split(DropPrefix(t, i + Len(sep) - 1), sep)))

\* [v.strip() for v in parts if v.strip()]
RECURSIVE StripNonEmpty(_, _, _)
StripNonEmpty(parts, i, acc) ==
    IF i > Len(parts) THEN acc
    ELSE Bind(Strip(parts[i]), LAMBDA v :
             StripNonEmpty(parts, i + 1, IF v = "" THEN acc ELSE Append(acc, v)))

\* orchestrator.py:119-120 (and :111 for REMOTE_HOST): (val or "").split(",")
parse_list(val) ==
    Bind(IF val = None THEN "" ELSE val, LAMBDA v : StripNonEmpty(Split(v, ","), 1, <<>>))

\* get_val without the reuse of the last element
GetValNoReuse(lst, index, default) ==
    IF index <= Len(lst) THEN lst[index] ELSE default

\* orchestrator.py:129-134, index counted from 1
get_val(lst, index, default) ==
    IF lst = <<>> THEN default
    ELSE IF index <= Len(lst) THEN lst[index]
    ELSE lst[Len(lst)]

\* {k: v for k, v in overrides.items() if v is not None}
RECURSIVE DropNone(_, _, _)
DropNone(d, i, acc) ==
    IF i > Len(d) THEN acc
    ELSE DropNone(d, i + 1, IF d[i][2] = None THEN acc ELSE Append(acc, d[i]))

\* orchestrator.py:136-144, the overrides of the host at index i of hosts
HostOverrides(cfg, hosts, i) ==
    DropNone(<< <<"REMOTE_HOST", hosts[i]>>,
                <<"REMOTE_USER", get_val(parse_list(cfg.REMOTE_USER), i, cfg.REMOTE_USER)>>,
                <<"REMOTE_PASSWORD",
                  get_val(parse_list(cfg.REMOTE_PASSWORD), i, cfg.REMOTE_PASSWORD)>>,
                <<"SSH_KEY", get_val(parse_list(cfg.SSH_KEY), i, cfg.SSH_KEY)>> >>, 1, <<>>)

deployment_configs(cfg) ==
    Bind(parse_list(cfg.REMOTE_HOST), LAMBDA hosts :
        [i \in 1..Len(hosts) |-> HostOverrides(cfg, hosts, i)])

\* os.getenv("GITHUB_OUTPUT") is truthy
HasOutputFile == HasKey(environ, "GITHUB_OUTPUT") /\ DictGet(environ, "GITHUB_OUTPUT") # ""

\* with open(os.getenv("GITHUB_OUTPUT"), "a") as f: f.write(line)
WriteOutput(line) ==
    IF HasOutputFile THEN [mainProc EXCEPT !.output = Append(@, line)] ELSE mainProc

HostLists == {"", "10.0.0.1", " h1 ,", "h1, h2", "h1, ,h2", "h1, h2,   h3"}
UserLists == {"root", "u1, u2", " ,", "u1,u2,u3,u4"}
PasswordLists == {None, "p1", "p1 ,p2"}
KeyLists == {None, "k1,k2,k3"}

\* the variables of the process besides the credentials: a plain shell, or a GitHub
\* Actions runner whose workflow sets the deployment type and clones over ssh
ProcessEnvs ==
    { <<>>,
      << <<"GITHUB_OUTPUT", "/tmp/github_output">>, <<"DEPLOYMENT_TYPE", "Docker">>,
         <<"GIT_AUTH_METHOD", "SSH">> >> }

\* main.py:42-69: the overrides built from the command line
CliOverrides ==
    { <<>>,
      << <<"DEPLOYMENT_TYPE", "k8s">>, <<"ENVIRONMENT", "prod">> >>,
      << <<"REMOTE_DIR", "/srv/app">> >> }

\* config.py:16-17: get_env of Config.load(overrides)
get_env(env, overrides, name, default) ==
    IF HasKey(overrides, name) /\ DictGet(overrides, name) \notin {"", None}
    THEN DictGet(overrides, name)
    ELSE IF HasKey(env, name) THEN DictGet(env, name)
    ELSE default

\* config.py:8-42, Config.load(overrides): the fields a deployment is run with
load(env, overrides) ==
    Bind(get_env(env, overrides, "REMOTE_USER", "root"), LAMBDA user :
    Bind(get_env(env, overrides, "REMOTE_DIR", None), LAMBDA dir :
        [DEPLOYMENT_TYPE |-> Lower(get_env(env, overrides, "DEPLOYMENT_TYPE", "baremetal")),
         ENVIRONMENT |-> get_env(env, overrides, "ENVIRONMENT", "dev"),
         REMOTE_USER |-> user,
         REMOTE_HOST |-> get_env(env, overrides, "REMOTE_HOST", "127.0.0.1"),
         REMOTE_DIR |-> IF dir \notin {"", None} THEN dir
                        ELSE IF user = "root" THEN "/root"
                        ELSE "/home/" \o user,
         SSH_KEY |-> get_env(env, overrides, "SSH_KEY", None),
         REMOTE_PASSWORD |-> get_env(env, overrides, "REMOTE_PASSWORD", None),
         GIT_AUTH_METHOD |-> Lower(get_env(env, overrides, "GIT_AUTH_METHOD", "none")),
         GIT_SSH_KEY |-> get_env(env, overrides, "GIT_SSH_KEY", None)]))

\* connection.py:8-23: the file setup_ssh_key creates, named by the field it is kept in
setup_ssh_key(cfg) == IF cfg.SSH_KEY \notin {"", None} THEN {"SSH_KEY_PATH"} ELSE {}

\* git_ops.py:16-21 and 48-53: setup_git_auth raises ValueError (the token method is
\* not modelled)
GitAuthRaises(cfg) ==
    \/ /\ cfg.GIT_AUTH_METHOD = "ssh"
       /\ cfg.GIT_SSH_KEY \in {"", None} /\ cfg.SSH_KEY \in {"", None}
    \/ cfg.GIT_AUTH_METHOD \notin {"token", "ssh", "none"}

\* git_ops.py:16-37: the file setup_git_auth creates
setup_git_auth(cfg) ==
    IF cfg.GIT_AUTH_METHOD = "ssh" /\ ~GitAuthRaises(cfg) THEN {"GIT_SSH_KEY_PATH"} ELSE {}

\* orchestrator.py:47-48: the key files of the deploy_single_host call of worker who
\* (0: the direct call), each a fresh temporary file
KeyFilesOf(cfg, who) ==
    {[field |-> f, of |-> who] : f \in setup_ssh_key(cfg) \cup setup_git_auth(cfg)}

\* main.py:40-75: the process environment, the command line, and the configuration
\* main loads from them before it calls handle_connection
InitHosts ==
    /\ fn = "main"
    /\ pc = "handle_connection"
    /\ \E h \in HostLists, u \in UserLists, p \in PasswordLists, k \in KeyLists,
          e \in ProcessEnvs :
          environ = DropNone(<< <<"REMOTE_HOST", h>>, <<"REMOTE_USER", u>>,
                                <<"REMOTE_PASSWORD", p>>, <<"SSH_KEY", k>> >>, 1, <<>>) \o e
    /\ args \in CliOverrides
    /\ config = load(environ, args)
    /\ ret = <<>> /\ hashOrder = <<>>
    /\ Idle

HostsQuiet == UNCHANGED <<environ, config, hashOrder, fn, args, ret, env_file_data, file_paths,
                          todo, created, shell, remote, remoteDirs, cmdLog, raised, stages>>

\* orchestrator.py:111-114 and 47-48: at most one host, deploy_single_host runs in this
\* process and sets up its key files
CallDirect ==
    /\ fn = "main" /\ pc = "handle_connection"
    /\ Len(parse_list(config.REMOTE_HOST)) <= 1
    /\ mainProc' = [mainProc EXCEPT !.direct = @ + 1,
                                    !.keyFiles = @ \cup KeyFilesOf(config, 0)]
    /\ pc' = "deploy_single_host"
    /\ UNCHANGED futures
    /\ HostsQuiet

\* orchestrator.py:49-94: the direct call succeeds, records it and unlinks its key files
DirectReturns ==
    /\ fn = "main" /\ pc = "deploy_single_host"
    /\ ~GitAuthRaises(config)
    /\ mainProc' = [WriteOutput("deployment_status=success") EXCEPT
                        !.keyFiles = @ \ KeyFilesOf(config, 0)]
    /\ pc' = "returned"
    /\ UNCHANGED futures
    /\ HostsQuiet

\* any step of the direct call raises: handle_connection has no handler
DirectRaises ==
    /\ fn = "main" /\ pc = "deploy_single_host"
    /\ pc' = "raised"
    /\ UNCHANGED <<futures, mainProc>>
    /\ HostsQuiet

\* orchestrator.py:116-151: several hosts, one future per entry of deployment_configs;
\* the pool is created with the spawn context, so the process that will run a future
\* imports src.config anew and starts with the Config() of config.py:90, loaded from
\* the inherited environment alone
SubmitAll ==
    /\ fn = "main" /\ pc = "handle_connection"
    /\ Len(parse_list(config.REMOTE_HOST)) > 1
    /\ mainProc' = [mainProc EXCEPT !.pool = TRUE]
    /\ futures' = Bind(deployment_configs(config), LAMBDA cfgs :
                      [i \in 1..Len(cfgs) |->
                          [cfg |-> cfgs[i], host |-> DictGet(cfgs[i], "REMOTE_HOST"),
                           state |-> "pending", config |-> load(environ, <<>>)]])
    /\ pc' = "as_completed"
    /\ HostsQuiet

\* deploy_worker in a pool process: orchestrator.py:97-102 and 47-66, the worker loads
\* its overrides, sets up its key files, connects and records the host name
WorkerConnects(i) ==
    /\ futures[i].state = "pending"
    /\ ~GitAuthRaises(load(environ, futures[i].cfg))
    /\ futures' = [futures EXCEPT ![i].state = "running",
                                  ![i].config = load(environ, futures[i].cfg)]
    /\ mainProc' = [WriteOutput("remote_hostname=" \o futures[i].host) EXCEPT
                        !.keyFiles = @ \cup KeyFilesOf(load(environ, futures[i].cfg), i)]
    /\ UNCHANGED pc
    /\ HostsQuiet

\* orchestrator.py:82-94: deploy_single_host ends in the worker, which records the
\* success and unlinks its key files
WorkerSucceeds(i) ==
    /\ futures[i].state = "running"
    /\ futures' = [futures EXCEPT ![i].state = "succeeded"]
    /\ mainProc' = [WriteOutput("deployment_status=success") EXCEPT
                        !.keyFiles = @ \ KeyFilesOf(futures[i].config, i)]
    /\ UNCHANGED pc
    /\ HostsQuiet

\* orchestrator.py:100-106: a step of the worker raises, after config.load and the
\* setup of the key files, before or after it connected
WorkerFails(i) ==
    /\ futures[i].state \in {"pending", "running"}
    /\ futures' = [futures EXCEPT ![i].state = "failed",
                                  ![i].config = load(environ, futures[i].cfg)]
    /\ mainProc' = [mainProc EXCEPT
                        !.keyFiles = @ \cup KeyFilesOf(load(environ, futures[i].cfg), i)]
    /\ UNCHANGED pc
    /\ HostsQuiet

Finished(i) == futures[i].state \in {"succeeded", "failed"}

\* TakeCompleted with an except clause that does not raise again
TakeCompletedSwallows(i) ==
    /\ fn = "main" /\ pc = "as_completed"
    /\ Finished(i) /\ i \notin mainProc.seen
    /\ mainProc' = [mainProc EXCEPT !.seen = @ \cup {i}]
    /\ pc' = "as_completed"
    /\ UNCHANGED futures
    /\ HostsQuiet

\* orchestrator.py:153-160: as_completed yields a finished future the loop has not seen;
\* the failure of the future is raised again
TakeCompleted(i) ==
    /\ fn = "main" /\ pc = "as_completed"
    /\ Finished(i) /\ i \notin mainProc.seen
    /\ mainProc' = [mainProc EXCEPT !.seen = @ \cup {i}]
    /\ pc' = IF futures[i].state = "failed" THEN "shutdown_raising" ELSE "as_completed"
    /\ UNCHANGED futures
    /\ HostsQuiet

\* as_completed is exhausted
LoopEnds ==
    /\ fn = "main" /\ pc = "as_completed"
    /\ mainProc.seen = DOMAIN futures
    /\ pc' = "shutdown"
    /\ UNCHANGED <<futures, mainProc>>
    /\ HostsQuiet

\* PoolShutdown that does not wait for the futures still running
PoolShutdownNoWait ==
    /\ fn = "main" /\ pc \in {"shutdown", "shutdown_raising"}
    /\ pc' = IF pc = "shutdown" THEN "returned" ELSE "raised"
    /\ UNCHANGED <<futures, mainProc>>
    /\ HostsQuiet

\* orchestrator.py:148: leaving the with block waits for every submitted future
PoolShutdown ==
    /\ fn = "main" /\ pc \in {"shutdown", "shutdown_raising"}
    /\ \A i \in DOMAIN futures : Finished(i)
    /\ pc' = IF pc = "shutdown" THEN "returned" ELSE "raised"
    /\ UNCHANGED <<futures, mainProc>>
    /\ HostsQuiet

\* main.py:76-81
MainExcept ==
    /\ fn = "main" /\ pc = "raised"
    /\ mainProc' = [WriteOutput("deployment_status=failed") EXCEPT !.exit = "1"]
    /\ pc' = "exit"
    /\ UNCHANGED futures
    /\ HostsQuiet

\* main.py:75, 84-85: handle_connection returned, the interpreter exits with status 0
MainReturns ==
    /\ fn = "main" /\ pc = "returned"
    /\ mainProc' = [mainProc EXCEPT !.exit = "0"]
    /\ pc' = "exit"
    /\ UNCHANGED futures
    /\ HostsQuiet

NextHosts ==
    \/ CallDirect
    \/ DirectReturns
    \/ DirectRaises
    \/ SubmitAll
    \/ \E i \in DOMAIN futures : WorkerConnects(i)
    \/ \E i \in DOMAIN futures : WorkerSucceeds(i)
    \/ \E i \in DOMAIN futures : WorkerFails(i)
    \/ \E i \in DOMAIN futures : TakeCompleted(i)
    \/ LoopEnds
    \/ PoolShutdown
    \/ MainExcept
    \/ MainReturns

SpecHosts == InitHosts /\ [][NextHosts]_vars

-----------------------------------------------------------------------------
(* Properties of merge_env_vars_by_priority, checked under SpecMerge *)

\* the items of a dict as a set, the keys of such a set, the values it gives a key
Items(d) == {d[i] : i \in 1..Len(d)}

KeysOf(S) == {kv[1] : kv \in S}

ValuesOf(S, k) == {kv[2] : kv \in {x \in S : x[1] = k}}

MergeReturned == fn = "merge_env_vars_by_priority" /\ pc = "return"

\* the component C and the environment E of the call
CompOf == Upper(Replace(args.pattern, ".env.", ""))

EnvOf == Upper(config.ENVIRONMENT)

\* what the individual variables prefix<K> define: K -> value
IndividualEntries(prefix) ==
    {<<DropPrefix(kv[1], Len(prefix)), kv[2]>> :
        kv \in {x \in Items(args.all_env_vars) : StartsWith(x[1], prefix)}}

\* what the blob variable `name` defines for component C: its parsed entries with
\* a leading C_ stripped; a blob that does not parse is one entry C -> text
BlobEntries(name, C) ==
    IF ~HasKey(args.all_env_vars, name) THEN {}
    ELSE LET raw == DictGet(args.all_env_vars, name)
             parsed == Items(parse_all_in_one_secret(raw, config.ENV_FILES_FORMAT))
         IN  IF parsed # {}
             THEN {<<IF StartsWith(kv[1], C \o "_") THEN DropPrefix(kv[1], Len(C) + 1)
                     ELSE kv[1], kv[2]>> : kv \in parsed}
             ELSE IF Strip(raw) # "" THEN {<<C, raw>>} ELSE {}

\* the four sources of a component file, by ascending priority
Source(n) ==
    CASE n = 1 -> IndividualEntries("ENV_" \o CompOf \o "_")
      [] n = 2 -> BlobEntries("ENV_" \o CompOf, CompOf)
      [] n = 3 -> IndividualEntries("ENV_" \o EnvOf \o "_" \o CompOf \o "_")
      [] n = 4 -> BlobEntries("ENV_" \o EnvOf \o "_" \o CompOf, CompOf)

\* the highest-priority source that defines K
TopSource(K) ==
    CHOOSE n \in 1..4 : K \in KeysOf(Source(n)) /\ \A m \in (n + 1)..4 : K \notin KeysOf(Source(m))

\* C1: for a component pattern the result holds exactly the keys some source
\* defines, each with a value of the highest-priority source that defines it, in
\* the order ENV_C_K < blob ENV_C < ENV_E_C_K < blob ENV_E_C; blob keys lose a
\* leading C_; a key no source defines is absent.
C1_StagePriority ==
    (MergeReturned /\ args.pattern # ".env") =>
        /\ DictKeys(ret) = UNION {KeysOf(Source(n)) : n \in 1..4}
        /\ \A K \in DictKeys(ret) : DictGet(ret, K) \in ValuesOf(Source(TopSource(K)), K)

\* a key that a lower and a higher source define differently, the result holding
\* the higher one
C1_Witness ==
    /\ MergeReturned /\ args.pattern # ".env"
    /\ \E K \in DictKeys(ret) : \E n \in 1..3 :
          /\ n < TopSource(K)
          /\ K \in KeysOf(Source(n))
          /\ ValuesOf(Source(n), K) \cap ValuesOf(Source(TopSource(K)), K) = {}
          /\ DictGet(ret, K) \in ValuesOf(Source(TopSource(K)), K)

\* what one variable of the global file, stripped to `name`, defines: the entries
\* of a component blob prefixed with the component, or name -> value
GlobalEntries(name, v) ==
    LET parsed == Items(parse_all_in_one_secret(v, config.ENV_FILES_FORMAT))
    IN  IF parsed # {} /\ ~Contains(name, "_")
        THEN {<<IF StartsWith(kv[1], Upper(name) \o "_") THEN kv[1]
                ELSE name \o "_" \o kv[1], kv[2]>> : kv \in parsed}
        ELSE {<<name, v>>}

\* var is scoped to environment e: ENV_e_* or the blob ENV_e
ScopedTo(name, e) == e # "" /\ (StartsWith(name, "ENV_" \o e \o "_") \/ name = "ENV_" \o e)

\* the variables of the call that belong to no environment
UnscopedVars ==
    {x \in Items(args.all_env_vars) :
        /\ StartsWith(x[1], "ENV_") /\ ~StartsWith(x[1], "ENV_FILES_")
        /\ \A e \in {EnvOf} \cup FallbackEnvs : ~ScopedTo(x[1], e)}

\* the variables of the call scoped to the active environment by prefix
ActiveVars ==
    {x \in Items(args.all_env_vars) : StartsWith(x[1], "ENV_" \o EnvOf \o "_")}

UnscopedEntries == UNION {GlobalEntries(DropPrefix(x[1], 4), x[2]) : x \in UnscopedVars}

ActiveEntries ==
    UNION {GlobalEntries(DropPrefix(x[1], Len("ENV_" \o EnvOf \o "_")), x[2]) : x \in ActiveVars}

\* C2: in the global file a key that an unscoped variable and a variable of the
\* active environment both produce holds the value of the active environment.
C2_ScopedWins ==
    (MergeReturned /\ args.pattern = ".env") =>
        \A K \in KeysOf(UnscopedEntries) \cap KeysOf(ActiveEntries) :
            HasKey(ret, K) /\ DictGet(ret, K) \in ValuesOf(ActiveEntries, K)

\* both kinds produce one key with different values
C2_Witness ==
    /\ MergeReturned /\ args.pattern = ".env"
    /\ \E K \in KeysOf(UnscopedEntries) \cap KeysOf(ActiveEntries) :
          /\ ValuesOf(UnscopedEntries, K) \cap ValuesOf(ActiveEntries, K) = {}
          /\ DictGet(ret, K) \in ValuesOf(ActiveEntries, K)

\* the variables scoped to an environment other than the active one
OtherEnvVars ==
    {x \in Items(args.all_env_vars) :
        /\ ~ScopedTo(x[1], EnvOf)
        /\ \E o \in FallbackEnvs \ {EnvOf} : ScopedTo(x[1], o)}

\* C4: the global file holds nothing that comes from a variable of another
\* environment, ENV_O_* or the blob ENV_O: without those variables the result is
\* the same.
C4_NoOtherEnvironment ==
    (MergeReturned /\ args.pattern = ".env") =>
        ret = merge_env_vars_by_priority(
                  SelectSeq(args.all_env_vars, LAMBDA x : x \notin OtherEnvVars),
                  config.ENVIRONMENT, ".env", config.ENV_FILES_FORMAT)

-----------------------------------------------------------------------------
(* Properties of detect_file_patterns, checked under SpecDetect *)

DetectReturned == fn = "detect_file_patterns" /\ pc = "return"

\* the component a variable names: the first token of its suffix, lower-cased
ComponentOf(name, E) ==
    LET suffix == IF ScopedTo(name, E) /\ StartsWith(name, "ENV_" \o E \o "_")
                  THEN DropPrefix(name, Len("ENV_" \o E \o "_"))
                  ELSE IF ScopedTo(name, E) THEN ""
                  ELSE DropPrefix(name, 4)
    IN  Lower(FirstToken(LStripChars(suffix, {"_"}), "_"))

\* the variables that name a component: not internal, and unscoped or scoped to E
Contributing(E) ==
    {n \in DictKeys(args.all_env_vars) :
        /\ StartsWith(n, "ENV_") /\ ~StartsWith(n, "ENV_FILES_")
        /\ (ScopedTo(n, E) \/ \A o \in FallbackEnvs : ~ScopedTo(n, o))
        /\ ComponentOf(n, E) # ""}

\* C5: for a structure other than single the result is the sorted set of the
\* components of the contributing variables, and app when there is none.
C5_PatternsOfVariables ==
    (DetectReturned /\ args.structure # "single") =>
        LET E == Upper(args.environment)
            found == {".env." \o ComponentOf(n, E) : n \in Contributing(E)}
        IN  ret = IF found = {} THEN <<".env.app">> ELSE SortedSeq(found)

-----------------------------------------------------------------------------
(* Properties of determine_file_structure, checked under SpecLayout *)

LayoutReturned == fn = "determine_file_structure" /\ pc = "return"

\* a path with runs of "/" collapsed
RECURSIVE Collapse(_)
Collapse(p) ==
    IF Len(p) < 2 THEN p
    ELSE IF CharAt(p, 1) = "/" /\ CharAt(p, 2) = "/" THEN Collapse(DropPrefix(p, 1))
    ELSE CharAt(p, 1) \o Collapse(DropPrefix(p, 1))

\* {dir}: base_path, the absolute override, or base_path/override
ClaimedDir ==
    IF config.ENV_FILES_PATH = "" THEN args.base_path
    ELSE IF CharAt(config.ENV_FILES_PATH, 1) = "/" THEN config.ENV_FILES_PATH
    ELSE args.base_path \o "/" \o config.ENV_FILES_PATH

\* where structure st puts pattern p
ClaimedPath(st, p) ==
    Collapse(IF st = "flat" THEN ClaimedDir \o "/" \o p
             ELSE IF config.ENV_FILES_PATH = ""
             THEN ClaimedDir \o "/.envs/" \o args.environment \o "/" \o p
             ELSE ClaimedDir \o "/" \o args.environment \o "/" \o p)

\* ret places exactly the patterns of the call, each as structure st does
PlacedAs(st) ==
    /\ Len(ret) = Len(args.patterns)
    /\ DictKeys(ret) = {args.patterns[i] : i \in 1..Len(args.patterns)}
    /\ \A p \in DictKeys(ret) : Collapse(DictGet(ret, p)) = ClaimedPath(st, p)

\* C6: flat puts p at {dir}/p, nested at {dir}/.envs/{environment}/p without an
\* override and at {dir}/{environment}/p with one; one path per pattern.
C6_Placement ==
    LayoutReturned =>
        /\ args.structure \in {"flat", "nested"} => PlacedAs(args.structure)
        /\ args.structure = "auto" => PlacedAs("flat") \/ PlacedAs("nested")

\* a nested placement under a relative override
C6_Witness ==
    /\ LayoutReturned /\ args.structure = "nested" /\ config.ENV_FILES_PATH = "conf"
    /\ Len(args.patterns) = 2 /\ PlacedAs("nested") /\ ~PlacedAs("flat")

\* a variable of the active environment exists in the process environment
HasEnvScoped ==
    /\ args.environment # ""
    /\ \E n \in DictKeys(environ) : StartsWith(n, "ENV_" \o Upper(args.environment) \o "_")

\* C7: auto is nested exactly when there is more than one pattern or a variable
\* of the active environment, flat otherwise, for all patterns alike.
C7_AutoResolution ==
    (LayoutReturned /\ args.structure = "auto") =>
        IF Len(args.patterns) > 1 \/ HasEnvScoped THEN PlacedAs("nested") ELSE PlacedAs("flat")

\* one pattern, nested on account of a variable of the active environment
C7_Witness ==
    /\ LayoutReturned /\ args.structure = "auto"
    /\ Len(args.patterns) = 1 /\ HasEnvScoped /\ PlacedAs("nested") /\ ~PlacedAs("flat")

\* C8: custom gives every pattern one path directly under ENV_FILES_PATH,
\* whatever base_path is.
C8_CustomPlacement ==
    (LayoutReturned /\ args.structure = "custom" /\ config.ENV_FILES_PATH # "") =>
        /\ Len(ret) = Len(args.patterns)
        /\ \A i \in 1..Len(args.patterns) :
              /\ HasKey(ret, args.patterns[i])
              /\ Collapse(DictGet(ret, args.patterns[i]))
                    = Collapse(config.ENV_FILES_PATH \o "/" \o args.patterns[i])

-----------------------------------------------------------------------------
(* Properties of a deployment, checked under Spec *)

StageAt(i, stage, outcome) == stages[i] = [stage |-> stage, outcome |-> outcome]

GenStages == {i \in 1..Len(stages) : stages[i].stage = "generate_env_files"}

\* C3: generate_env_files never lets an exception out: it always ends by
\* returning, whatever failed inside it, and the deployment goes on with
\* copy_artifacts and then deploy; a deployment fails only in a stage of its own.
C3_NeverPropagates ==
    /\ \A i \in GenStages :
          /\ stages[i].outcome # "raised"
          /\ i < Len(stages) => stages[i + 1].stage = "copy_artifacts"
          /\ (i + 1 < Len(stages) /\ stages[i + 1].outcome = "ok") =>
                stages[i + 2].stage = "deploy"
          /\ i = Len(stages) => pc = "copy_artifacts"
    /\ raised # "" => pc = "gen_except"
    /\ pc = "failed" =>
          /\ stages[Len(stages)].stage \in {"clone_repo", "copy_artifacts", "deploy"}
          /\ stages[Len(stages)].outcome = "raised"

\* a remote write failed, and the deployment ran copy_artifacts and deploy to the end
C3_Witness ==
    /\ pc = "done"
    /\ \E i \in GenStages :
          /\ stages[i].outcome = "continued after remote write"
          /\ \E k \in 1..Len(cmdLog) : ~cmdLog[k].ok
          /\ StageAt(i + 1, "copy_artifacts", "ok")
          /\ StageAt(i + 2, "deploy", "ok")

\* the remote commands of the c-th call of create_env_file, in the order they ran
LogOf(c) == SelectSeq(cmdLog, LAMBDA e : e.call = c)

\* what the claim expects the c-th call to run, in order
ClaimedSteps(c) ==
    << [op |-> "mkdir -p", path |-> PathDirname(created[c].path)],
       [op |-> "tee", path |-> created[c].path],
       [op |-> "chmod 600", path |-> created[c].path] >>

Succeeded(c) == Len(LogOf(c)) = 3 /\ \A i \in 1..3 : LogOf(c)[i].ok

\* no later call has written to the path of the c-th call
LastWriteTo(c) ==
    \A d \in (c + 1)..Len(created) :
        created[d].path = created[c].path =>
            ~\E i \in 1..Len(LogOf(d)) : LogOf(d)[i].op = "tee" /\ LogOf(d)[i].ok

\* C9: a call of create_env_file with empty content runs no remote command; one
\* with content runs mkdir of the parent directory, the write and chmod 600 in
\* that order, each only after the one before it succeeded, and once all three
\* succeeded the remote file holds exactly the content, with mode 600.
C9_CreateEnvFile ==
    \A c \in 1..Len(created) :
        /\ created[c].content = "" => LogOf(c) = <<>>
        /\ created[c].content # "" =>
              /\ Len(LogOf(c)) <= 3
              /\ \A i \in 1..Len(LogOf(c)) :
                    /\ LogOf(c)[i].op = ClaimedSteps(c)[i].op
                    /\ LogOf(c)[i].path = ClaimedSteps(c)[i].path
                    /\ i < Len(LogOf(c)) => LogOf(c)[i].ok
              /\ (Succeeded(c) /\ LastWriteTo(c)) =>
                    /\ HasKey(remote, created[c].path)
                    /\ DictGet(remote, created[c].path)
                          = [content |-> created[c].content, mode |-> "600"]

\* one call with empty content and one whose three commands succeeded, the file
\* being created with another mode first
C9_Witness ==
    /\ \E c \in 1..Len(created) : created[c].content = "" /\ LogOf(c) = <<>>
    /\ \E c \in 1..Len(created) :
          /\ created[c].content # "" /\ Succeeded(c)
          /\ DictGet(remote, created[c].path).content = created[c].content
          /\ DictGet(remote, created[c].path).mode = "600"
          /\ NewFileMode # "600"

RootCalls == {c \in 1..Len(created) : created[c].origin = "root"}

\* C10 as stated: the combined root file is written only when the create-root
\* option is set and the structure is neither single nor flat.
C10_RootOnlyOutsideSingleFlat ==
    \A c \in RootCalls :
        /\ config.ENV_FILES_CREATE_ROOT
        /\ config.ENV_FILES_STRUCTURE \notin {"single", "flat"}

\* the combined merge of the run (line 464)
RootVars ==
    merge_env_vars_by_priority(AllEnvVars(environ), config.ENVIRONMENT, ".env",
                               config.ENV_FILES_FORMAT)

GenReturnedOk == \E i \in GenStages : stages[i].outcome = "ok"

\* C10, amended: the combined root file {base}/.env is written only when the
\* create-root option is set, and the structure plays no part: whenever
\* generate_env_files got through with files to write, the option set and a
\* non-empty combined merge, the root file was written once, with single and flat
\* as with any other structure.
C10_RootOnlyWhenCreateRoot ==
    /\ \A c \in RootCalls :
          /\ config.ENV_FILES_CREATE_ROOT
          /\ created[c].path = PathJoin(config.GIT_SUBDIR, ".env")
    /\ (GenReturnedOk /\ env_file_data # <<>>) =>
          IF config.ENV_FILES_CREATE_ROOT /\ RootVars # <<>>
          THEN Cardinality(RootCalls) = 1
          ELSE RootCalls = {}

\* the root file written under structure flat, next to the file of a component
C10_Witness ==
    /\ GenReturnedOk /\ config.ENV_FILES_STRUCTURE = "flat"
    /\ \E c \in RootCalls : Succeeded(c) /\ created[c].path = "/root/proj/.env"
    /\ \E c \in 1..Len(created) : created[c].origin = "pattern" /\ Succeeded(c)

\* the calls of create_env_file made for the patterns, in order
PatternCalls == SelectSeq(created, LAMBDA e : e.origin = "pattern")

\* the directory the files of a run go to under flat (lines 238-246)
FlatDir == DirBase(config.GIT_SUBDIR, config.ENV_FILES_PATH)

\* the individual variables ENV_<C>_<K> of no environment, as <C>_<K> -> value
UnscopedIndividual ==
    {<<DropPrefix(kv[1], 4), kv[2]>> :
        kv \in {x \in Items(environ) :
                   /\ StartsWith(x[1], "ENV_") /\ ~StartsWith(x[1], "ENV_FILES_")
                   /\ Contains(DropPrefix(x[1], 4), "_")
                   /\ \A e \in EnvCandidates(Upper(config.ENVIRONMENT)) :
                         ~StartsWith(x[1], "ENV_" \o e \o "_")}}

\* content has a line that assigns key
HasKeyLine(content, key) ==
    \E l \in Items(SplitLines(content)) : StartsWith(l, key \o "=")

\* C11: with create-root set and structure flat, generate_env_files calls
\* create_env_file once for every detected component, with the path of the
\* component directly under the base directory, and once more for the combined
\* root file {base}/.env, whose content names every unscoped variable
\* ENV_<C>_<K> by its component-prefixed key <C>_<K>.
C11_FlatWithRoot ==
    (GenReturnedOk /\ config.ENV_FILES_STRUCTURE = "flat" /\ config.ENV_FILES_CREATE_ROOT) =>
        /\ Len(PatternCalls) = Len(env_file_data)
        /\ \A i \in 1..Len(env_file_data) :
              /\ PatternCalls[i].path = PathJoin(FlatDir, env_file_data[i][1])
              /\ PatternCalls[i].content = env_file_data[i][2]
              /\ env_file_data[i][2] # "" =>
                    DictGet(remote, PatternCalls[i].path).content = env_file_data[i][2]
        /\ UnscopedIndividual # {} =>
              /\ Cardinality(RootCalls) = 1
              /\ \A c \in RootCalls :
                    /\ created[c].path = PathJoin(config.GIT_SUBDIR, ".env")
                    /\ Succeeded(c)
                    /\ \A kv \in UnscopedIndividual : HasKeyLine(created[c].content, kv[1])

\* the files of two components and the root file naming a variable of each
C11_Witness ==
    /\ GenReturnedOk /\ config.ENV_FILES_STRUCTURE = "flat" /\ config.ENV_FILES_CREATE_ROOT
    /\ Len(PatternCalls) = 2 /\ \A i \in 1..2 : PatternCalls[i].content # ""
    /\ Cardinality(UnscopedIndividual) = 2
    /\ \E c \in RootCalls :
          /\ HasKeyLine(created[c].content, "APP_PORT")
          /\ HasKeyLine(created[c].content, "DB_HOST")

-----------------------------------------------------------------------------
(* Properties of detect_environment_secrets, checked under SpecSecrets *)

SecretsReturned == fn = "detect_environment_secrets" /\ pc = "return"

\* the configured list, entries trimmed and blank ones dropped
ListedPatterns ==
    SelectSeq([i \in 1..Len(config.ENV_FILES_PATTERNS) |-> Strip(config.ENV_FILES_PATTERNS[i])],
              LAMBDA x : x # "")

\* the patterns discovered from the names of the variables
DiscoveredPatterns ==
    detect_file_patterns(RawOverrides(environ), config.ENV_FILES_STRUCTURE,
                         config.ENVIRONMENT, hashOrder)

\* C12 as stated: with a list configured and structure auto, content is generated
\* for exactly the listed patterns.
C12_ListWinsUnderAuto ==
    (SecretsReturned /\ config.ENV_FILES_PATTERNS # <<>> /\ config.ENV_FILES_STRUCTURE = "auto") =>
        DictKeys(ret) = Items(ListedPatterns)

\* C12, amended: with a list configured and structure auto, the discovered
\* patterns win: content is generated for exactly the discovered patterns, the
\* list is discarded, and the call returns (no error is raised).
C12_DiscoveredWinUnderAuto ==
    /\ (fn = "detect_environment_secrets" /\ config.ENV_FILES_PATTERNS # <<>>
        /\ config.ENV_FILES_STRUCTURE = "auto") =>
          /\ pc \in {"call", "return"}
          /\ pc = "return" => [i \in 1..Len(ret) |-> ret[i][1]] = DiscoveredPatterns
    /\ fn = "detect_environment_secrets" => raised = ""

\* a list is configured under auto and content is generated for the component of
\* a variable, which the list does not name
C12_Witness ==
    /\ SecretsReturned /\ config.ENV_FILES_PATTERNS # <<>> /\ config.ENV_FILES_STRUCTURE = "auto"
    /\ DictKeys(ret) = {".env.app"} /\ HasKey(environ, "ENV_APP_PORT")
    /\ ".env.app" \notin Items(ListedPatterns)

-----------------------------------------------------------------------------
(* Properties of parse_all_in_one_secret, checked under SpecParse *)

ParseCalled == fn = "parse_all_in_one_secret"

ParseReturned == ParseCalled /\ pc = "return"

\* the content the formats are tried on: trimmed, a local file read
ParsedText ==
    IF HasKey(LocalFiles, Strip(args.secret_content))
    THEN Strip(DictGet(LocalFiles, Strip(args.secret_content)))
    ELSE Strip(args.secret_content)

\* a name of upper-case letters, digits and underscores followed by "=", at the
\* start of text or after a space, a comma or a line break
HasKeyPattern(text) ==
    \E i \in 1..Len(text) :
        /\ CharAt(text, i) \in KeyChars
        /\ (i = 1 \/ CharAt(text, i - 1) \in KeyDelims)
        /\ \E j \in (i + 1)..Len(text) :
              /\ CharAt(text, j) = "="
              /\ \A k \in i..(j - 1) : CharAt(text, k) \in KeyChars

\* text without its full-line comments
Uncommented(text) ==
    Join(SelectSeq(SplitLines(text), LAMBDA l : ~StartsWith(Strip(l), "#")), "\n")

\* C13: parse_all_in_one_secret is total: whatever the content and the hint, the
\* call returns, never raises, and its result maps distinct keys to strings; the
\* result is empty when the hint names no format, when the content is empty, when
\* auto finds neither braces, a colon nor an equals sign, and when the ENV format
\* finds no KEY= pattern.
C13_ParseTotal ==
    ParseCalled =>
        /\ pc \in {"call", "return"} /\ raised = ""
        /\ pc = "return" =>
              /\ \A i, j \in 1..Len(ret) : ret[i][1] = ret[j][1] => i = j
              /\ \A i \in 1..Len(ret) : Len(ret[i]) = 2 /\ Len(ret[i][1]) >= 0 /\ Len(ret[i][2]) >= 0
              /\ args.format_hint \notin {"auto", "json", "yaml", "env"} => ret = <<>>
              /\ Strip(args.secret_content) = "" => ret = <<>>
              /\ (args.format_hint = "auto" /\ ~Contains(ParsedText, "=")
                  /\ ~Contains(ParsedText, ":") /\ ~StartsWith(ParsedText, "{")) => ret = <<>>
              /\ (args.format_hint = "env" /\ ~HasKeyPattern(Uncommented(ParsedText))) =>
                    ret = <<>>

\* calls that returned the empty mapping on a document the library rejects, on an
\* unknown hint, and on text without a key
C13_Witness ==
    /\ ParseReturned /\ ret = <<>>
    /\ \/ args.format_hint = "json" /\ args.secret_content = "{\"A\": 1,}"
       \/ args.format_hint = "toml" /\ args.secret_content = "A=1"
       \/ args.format_hint = "env" /\ args.secret_content = "hello"

\* the text json.loads and yaml.safe_load are given (line 31)
ProcessedText == Replace(ParsedText, "\\n", "\n")

JsonTried ==
    \/ args.format_hint = "json"
    \/ args.format_hint = "auto" /\ StartsWith(ProcessedText, "{") /\ EndsWith(ProcessedText, "}")

YamlTried ==
    \/ args.format_hint = "yaml"
    \/ /\ args.format_hint = "auto" /\ Contains(ProcessedText, ":")
       /\ ~(JsonTried /\ JsonLoads(ProcessedText).ok)

\* a library was given the content and raised
StructuredFailed ==
    /\ args.secret_content # ""
    /\ \/ JsonTried /\ ~JsonLoads(ProcessedText).ok
       \/ YamlTried /\ ~YamlLoad(ProcessedText).ok

\* C14: when json.loads or yaml.safe_load fails, under auto or under the hint
\* json or yaml, the content is parsed as ENV text, so content holding KEY=VALUE
\* pairs yields those pairs and not the empty mapping.
C14_FallbackToEnv ==
    (ParseReturned /\ StructuredFailed /\ HasKeyPattern(Uncommented(ParsedText))) =>
        /\ ret # <<>>
        /\ ret = ParseEnvFormat(ParsedText, args.strip_quotes)

-----------------------------------------------------------------------------
(* Properties of handle_connection and main, checked under SpecHosts *)

\* the entries of a comma-separated configuration value, trimmed, blanks dropped
Entries(val) == parse_list(val)

\* the element of a list a host at position i is given: its own, or the last one
ElementFor(lst, i) == IF i <= Len(lst) THEN lst[i] ELSE lst[Len(lst)]

HostsDispatched == fn = "main" /\ pc # "handle_connection"

CredentialFields == {"REMOTE_USER", "REMOTE_PASSWORD", "SSH_KEY"}

\* C15: once handle_connection has dispatched, with more than one host there is a
\* pool and exactly one worker per host, in host order; worker i is given the i-th
\* trimmed host as REMOTE_HOST and, for user, password and key, the i-th entry of the
\* list or its last entry when the list is shorter; with at most one host there is no
\* pool, no worker, and exactly one direct call of deploy_single_host.
C15_OneWorkerPerHost ==
    HostsDispatched =>
        LET hosts == Entries(config.REMOTE_HOST) IN
        IF Len(hosts) > 1
        THEN /\ mainProc.pool /\ mainProc.direct = 0
             /\ Len(futures) = Len(hosts)
             /\ \A i \in 1..Len(hosts) :
                   /\ DictGet(futures[i].cfg, "REMOTE_HOST") = hosts[i]
                   /\ \A f \in CredentialFields :
                         Entries(config[f]) # <<>> =>
                             /\ HasKey(futures[i].cfg, f)
                             /\ DictGet(futures[i].cfg, f) = ElementFor(Entries(config[f]), i)
        ELSE /\ ~mainProc.pool /\ futures = <<>>
             /\ mainProc.direct = 1

\* three hosts, two users, two passwords: the third worker reuses the last of each
C15_Witness ==
    /\ HostsDispatched
    /\ Len(futures) = 3
    /\ config.REMOTE_USER = "u1, u2" /\ config.REMOTE_PASSWORD = "p1 ,p2"
    /\ DictGet(futures[2].cfg, "REMOTE_USER") = "u2"
    /\ DictGet(futures[3].cfg, "REMOTE_USER") = "u2"
    /\ DictGet(futures[3].cfg, "REMOTE_PASSWORD") = "p2"
    /\ DictGet(futures[3].cfg, "REMOTE_HOST") = "h3"

SomeHostFailed == \E i \in DOMAIN futures : futures[i].state = "failed"

MultiHostRun == fn = "main" /\ mainProc.pool

Exited == mainProc.exit # ""

LastOutputIs(line) ==
    mainProc.output # <<>> /\ mainProc.output[Len(mainProc.output)] = line

\* C16 as stated: in a multi-host run where some host failed, handle_connection does
\* not return normally, and main exits with status 1 having recorded
\* deployment_status=failed, in every completion order.
C16_FailureRecorded ==
    (MultiHostRun /\ SomeHostFailed) =>
        /\ pc # "returned"
        /\ Exited => (mainProc.exit = "1" /\ LastOutputIs("deployment_status=failed"))

\* C16 amended: the status is recorded when GITHUB_OUTPUT names a file; then it is the
\* last line of that file, after whatever the workers wrote.
C16_FailureFailsRun ==
    (MultiHostRun /\ SomeHostFailed) =>
        /\ pc # "returned"
        /\ Exited =>
              /\ mainProc.exit = "1"
              /\ HasOutputFile => LastOutputIs("deployment_status=failed")

\* the first host succeeded and recorded it, the last one failed, main has exited
C16_Witness ==
    /\ MultiHostRun /\ Exited /\ HasOutputFile
    /\ Len(futures) = 3
    /\ futures[1].state = "succeeded" /\ futures[3].state = "failed"
    /\ \E k \in 1..Len(mainProc.output) : mainProc.output[k] = "deployment_status=success"

-----------------------------------------------------------------------------
(* Properties of the generated content, checked under SpecSecrets *)

\* the lines of a content that are neither blank nor comments
ContentLines(content) ==
    SelectSeq(SplitLines(content), LAMBDA l : Strip(l) # "" /\ ~StartsWith(Strip(l), "#"))

\* the key and the value of a line KEY=VALUE
LineKey(line) == Strip(FirstToken(Strip(line), "="))

LineValue(line) == DropPrefix(Strip(line), Find(Strip(line), "=", 1))

IsPairLine(line) == Contains(line, "=") /\ LineKey(line) # ""

\* the merge, by priority, of the variables that belong to a pattern
ResolvedFor(pattern) ==
    merge_env_vars_by_priority(RawOverrides(environ), config.ENVIRONMENT, pattern,
                               config.ENV_FILES_FORMAT)

\* C17: in the content of every pattern no two KEY= lines carry the same key, and
\* the line of a key the merge resolves carries the resolved (highest-priority)
\* value, whatever the raw base template holds.
C17_KeysUnique ==
    SecretsReturned =>
        \A p \in 1..Len(ret) :
            LET lines == ContentLines(ret[p][2])
                resolved == ResolvedFor(ret[p][1])
            IN  /\ \A i, j \in 1..Len(lines) :
                      (i < j /\ IsPairLine(lines[i]) /\ IsPairLine(lines[j])) =>
                          LineKey(lines[i]) # LineKey(lines[j])
                /\ \A i \in 1..Len(lines) :
                      (IsPairLine(lines[i]) /\ HasKey(resolved, LineKey(lines[i]))) =>
                          LineValue(lines[i]) = DictGet(resolved, LineKey(lines[i]))

IsComponentFile(pattern) == StartsWith(pattern, ".env.")

\* C18: every line of a component file that is neither blank nor a comment is a
\* KEY=VALUE pair, whatever the form of the component's base blob.
C18_OnlyPairs ==
    SecretsReturned =>
        \A p \in 1..Len(ret) :
            IsComponentFile(ret[p][1]) =>
                \A l \in Items(ContentLines(ret[p][2])) : IsPairLine(l)

-----------------------------------------------------------------------------
(* Properties of create_env_file, checked under SpecCreate *)

CreateCalled == fn = "create_env_file" /\ pc # "call"

GivenMapping == args.env_content.type = "dict" /\ args.env_content.value # <<>>

\* the mapping as text: one line KEY=VALUE per item, joined by newlines
Rendered(items) == Join([i \in 1..Len(items) |-> items[i][1] \o "=" \o items[i][2]], "\n")

\* C19: create_env_file called with a non-empty mapping raises nothing, the write
\* command it issues carries the base64 encoding of the mapping rendered as
\* newline-joined KEY=VALUE lines, and once the batch has succeeded the remote file
\* holds exactly that text.
C19_MappingRendered ==
    (CreateCalled /\ GivenMapping) =>
        /\ raised # "AttributeError"
        /\ \A k \in 1..Len(cmdLog) : cmdLog[k].op = "tee" /\ cmdLog[k].ok =>
              /\ HasKey(remote, args.file_path)
              /\ DictGet(remote, args.file_path).content = Rendered(args.env_content.value)
        /\ pc = "return" => HasKey(remote, args.file_path)

-----------------------------------------------------------------------------
(* Properties of the ENV format, checked under SpecParse *)

\* a key starts at position p of t: a run of upper-case letters, digits and
\* underscores that begins the text or follows a space, a comma or a line break, and
\* is followed by "="
KeyStartsAt(t, p) ==
    /\ CharAt(t, p) \in KeyChars
    /\ (p = 1 \/ CharAt(t, p - 1) \in KeyDelims)
    /\ \E j \in (p + 1)..Len(t) :
          CharAt(t, j) = "=" /\ \A k \in p..(j - 1) : CharAt(t, k) \in KeyChars

KeyStarts(t) == {p \in 1..Len(t) : KeyStartsAt(t, p)}

\* the position of the "=" of the key that starts at p
EqualsOf(t, p) == CHOOSE j \in (p + 1)..Len(t) : \A q \in (p + 1)..Len(t) :
                      CharAt(t, q) = "=" => j <= q /\ CharAt(t, j) = "="

KeyAt(t, p) == SubSeq(t, p, EqualsOf(t, p) - 1)

\* the text of the value: from after the "=" up to the separator before the next
\* key, or to the end of the text
ValueText(t, p) ==
    LET later == {q \in KeyStarts(t) : q > p}
        last == IF later = {} THEN Len(t)
                ELSE (CHOOSE q \in later : \A r \in later : q <= r) - 2
    IN  IF EqualsOf(t, p) + 1 > last THEN "" ELSE SubSeq(t, EqualsOf(t, p) + 1, last)

QuoteChars == {"\"", "'"}

\* one enclosing pair of matching quotes removed
Unquoted(v) ==
    IF Len(v) >= 2 /\ CharAt(v, 1) \in QuoteChars /\ CharAt(v, Len(v)) = CharAt(v, 1)
    THEN SubSeq(v, 2, Len(v) - 1)
    ELSE v

ValueOf(t, p) == Unquoted(RStripChars(Strip(ValueText(t, p)), {" ", ","}))

\* the last place at which key k starts
LastStartOf(t, k) ==
    CHOOSE p \in KeyStarts(t) :
        KeyAt(t, p) = k /\ \A q \in KeyStarts(t) : KeyAt(t, q) = k => q <= p

\* the keys that start in the full-line comments of a text
CommentKeys(text) ==
    UNION {{KeyAt(l, p) : p \in KeyStarts(l)} :
              l \in {x \in Items(SplitLines(text)) : StartsWith(Strip(x), "#")}}

EnvParsed == ParseReturned /\ args.format_hint = "env" /\ args.strip_quotes

\* C20: in the ENV format the result has exactly the keys that start outside the
\* full-line comments; every key maps to the text between its "=" and the start of
\* the next key (or the end of the content), trimmed, trailing commas and spaces
\* removed, one enclosing pair of matching quotes removed; a repeated key has the
\* value of its last occurrence; a key that only a comment holds does not appear.
C20_EnvFormat ==
    EnvParsed =>
        LET t == Uncommented(ParsedText) IN
        /\ DictKeys(ret) = {KeyAt(t, p) : p \in KeyStarts(t)}
        /\ \A k \in DictKeys(ret) : DictGet(ret, k) = ValueOf(t, LastStartOf(t, k))
        /\ \A k \in CommentKeys(ParsedText) :
              k \notin {KeyAt(t, p) : p \in KeyStarts(t)} => ~HasKey(ret, k)

-----------------------------------------------------------------------------
(* Properties of a failed remote write, checked under Spec *)

FailedCommands == {k \in 1..Len(cmdLog) : ~cmdLog[k].ok}

\* the successful writes of the log before entry k
WritesBefore(k) == {j \in 1..(k - 1) : cmdLog[j].op = "tee" /\ cmdLog[j].ok}

\* C21: once a remote command of generate_env_files has failed, no further remote
\* command is issued and create_env_file is not called again (the remaining pattern
\* files and the root file are skipped), the loop is not re-entered, every file
\* written before the failure still holds what was written, and generate_env_files
\* returns with the deployment going on.
C21_AbortAfterFailure ==
    \A k \in FailedCommands :
        /\ k = Len(cmdLog)
        /\ Len(created) = cmdLog[k].call
        /\ shell.state = "idle"
        /\ pc \notin {"gen_classify", "gen_layout", "gen_files", "run_command", "gen_root",
                      "gen_return"}
        /\ \A j \in WritesBefore(k) :
              /\ HasKey(remote, cmdLog[j].path)
              /\ (\A i \in WritesBefore(k) : cmdLog[i].path = cmdLog[j].path => i <= j) =>
                    DictGet(remote, cmdLog[j].path).content = created[cmdLog[j].call].content
        /\ pc # "gen_except" =>
              /\ \E i \in GenStages : stages[i].outcome = "continued after remote write"
              /\ \A i \in GenStages : stages[i].outcome # "raised"

\* the write of the second pattern file failed with the root file still to come:
\* the first file is in place, no root file was attempted, and the deployment ran
\* to its end
C21_Witness ==
    /\ pc = "done"
    /\ config.ENV_FILES_CREATE_ROOT /\ RootVars # <<>> /\ RootCalls = {}
    /\ \E k \in FailedCommands :
          /\ cmdLog[k].call = 2 /\ cmdLog[k].op = "tee" /\ WritesBefore(k) # {}
          /\ HasKey(remote, created[1].path)

-----------------------------------------------------------------------------
(* The order of the environment names in detect_file_patterns, checked under SpecDetect *)

\* the variables whose name starts with ENV_E_ for the active environment E
ActiveScoped(E) ==
    {n \in DictKeys(args.all_env_vars) :
        E # "" /\ StartsWith(n, "ENV_" \o E \o "_") /\ ~StartsWith(n, "ENV_FILES_")}

\* C22: a variable named ENV_E_... for the active environment E is matched to E,
\* whatever fallback name is a prefix of E, and its component is among the patterns
\* returned; the result is the same for every order in which the names are tried.
C22_ActiveEnvironmentFirst ==
    (DetectReturned /\ args.structure # "single") =>
        LET E == Upper(args.environment) IN
        /\ \A n \in ActiveScoped(E) :
              /\ MatchedEnv(n, hashOrder, 1) = E
              /\ ComponentOf(n, E) # "" => (".env." \o ComponentOf(n, E)) \in Items(ret)
        /\ \A o \in HashOrders(EnvCandidates(E)) :
              detect_file_patterns(args.all_env_vars, args.structure, args.environment, o) = ret

-----------------------------------------------------------------------------
(* Properties of merge_raw_env, checked under SpecRaw *)

RawReturned == fn = "merge_raw_env" /\ pc = "return"

IsCommentOrBlank(line) == Strip(line) = "" \/ StartsWith(Strip(line), "#")

\* the key of a base line KEY=VALUE; "" for a comment, a blank line or a line
\* without "="
BaseKey(line) ==
    IF IsCommentOrBlank(line) \/ ~Contains(line, "=") THEN ""
    ELSE Strip(FirstToken(Strip(line), "="))

IsOverridden(line) ==
    ~IsCommentOrBlank(line) /\ Contains(line, "=") /\ HasKey(args.overrides, BaseKey(line))

BaseLines == SplitLines(args.base_content)

\* the base with each overridden line replaced in place
BaseReplaced ==
    [i \in 1..Len(BaseLines) |->
        IF IsOverridden(BaseLines[i])
        THEN BaseKey(BaseLines[i]) \o "=" \o DictGet(args.overrides, BaseKey(BaseLines[i]))
        ELSE BaseLines[i]]

\* the overrides no base line holds, as lines, in the overrides' order
NewLines ==
    LET new == SelectSeq(args.overrides, LAMBDA kv :
                   \A i \in 1..Len(BaseLines) :
                       ~(IsOverridden(BaseLines[i]) /\ BaseKey(BaseLines[i]) = kv[1]))
    IN  [i \in 1..Len(new) |-> new[i][1] \o "=" \o new[i][2]]

\* C23: with a non-empty base the result is the lines of the base, in order, with
\* each line whose key is overridden replaced in place by key=value and every
\* other line (comment, blank, other) unchanged, followed by the overrides the base
\* does not hold, in the overrides' order, after at most one blank separator line;
\* with an empty base the result is exactly the overrides as KEY=VALUE lines.
C23_RawMerge ==
    RawReturned =>
        IF args.base_content = ""
        THEN ret = Join([i \in 1..Len(args.overrides) |->
                            args.overrides[i][1] \o "=" \o args.overrides[i][2]], "\n")
        ELSE \E sep \in {<<>>, <<"">>} :
                /\ NewLines = <<>> => sep = <<>>
                /\ ret = Join(BaseReplaced \o sep \o NewLines, "\n")

\* a base with a comment, a blank line, a kept line and a replaced line, and an
\* override the base holds only in a comment
C23_Witness ==
    /\ RawReturned
    /\ args.base_content = "# top\nA=1\n\nB = 2\n# C=3"
    /\ args.overrides = << <<"C", "7">>, <<"A", "9">> >>
    /\ ret = "# top\nA=9\n\nB = 2\n# C=3\nC=7"

-----------------------------------------------------------------------------
(* Properties of the workers of a failed multi-host run, checked under SpecHosts *)

HandleConnectionEnded == MultiHostRun /\ pc \in {"returned", "raised", "exit"}

\* the steps a worker takes on its own
WorkerSteps ==
    { <<"pending", "running">>, <<"pending", "failed">>,
      <<"running", "succeeded">>, <<"running", "failed">> }

\* C24: handle_connection neither returns nor raises before every submitted worker
\* has terminated; a worker changes state only by a step of its own (no future is
\* cancelled and no finished run is undone, whatever happened on another host), and
\* no line a worker recorded is taken back.
C24_OthersRunToCompletion ==
    /\ [](HandleConnectionEnded => \A i \in DOMAIN futures : Finished(i))
    /\ [][ /\ futures # <<>> => DOMAIN futures' = DOMAIN futures
           /\ \A i \in DOMAIN futures :
                 futures'[i].state # futures[i].state =>
                     <<futures[i].state, futures'[i].state>> \in WorkerSteps
           /\ Len(mainProc'.output) >= Len(mainProc.output)
           /\ SubSeq(mainProc'.output, 1, Len(mainProc.output)) = mainProc.output ]_vars

\* the failure of the first host is being raised, the loop has seen nothing else,
\* and the two other workers have run to their end after it: one succeeded and
\* recorded it, one failed
C24_Witness ==
    /\ MultiHostRun /\ pc = "raised" /\ HasOutputFile
    /\ Len(futures) = 3 /\ mainProc.seen = {1}
    /\ futures[1].state = "failed"
    /\ futures[2].state = "succeeded" /\ futures[3].state = "failed"
    /\ LastOutputIs("deployment_status=success")

\* ---- C25: the configuration of a worker ----

\* the fields deployment_configs makes per host
PerHostFields == {"REMOTE_HOST", "REMOTE_USER", "REMOTE_PASSWORD", "SSH_KEY"}

\* the fields every host of a run shares
SharedFields == DOMAIN config \ PerHostFields

\* worker i has loaded its configuration (orchestrator.py:100-102)
WorkerLoaded(i) == futures[i].state # "pending"

\* the configuration main resolves when the host of worker i is the only host of the
\* run: the same environment and command line, with that host's credentials
AsOnlyHost(i) == load(environ, DictUpdate(args, futures[i].cfg))

\* C25: in a multi-host run each worker deploys with the configuration the parent
\* resolved from the environment and the command line, except for the per-host
\* fields, and with the configuration it would have as the only host of the run
C25_WorkerConfigIsParents ==
    MultiHostRun =>
        \A i \in 1..Len(futures) :
            WorkerLoaded(i) =>
                /\ \A f \in SharedFields : futures[i].config[f] = config[f]
                /\ futures[i].config = AsOnlyHost(i)

\* ---- C26: one deployment status per run ----

\* the line was appended to the GITHUB_OUTPUT file during this run
Recorded(line) == \E k \in 1..Len(mainProc.output) : mainProc.output[k] = line

\* C26: when main has exited, the GITHUB_OUTPUT file does not hold both
\* deployment_status=success and deployment_status=failed, and it holds
\* deployment_status=success only if no host failed and main exited with status 0,
\* whatever the order of the workers' steps
C26_OneStatusPerRun ==
    Exited =>
        /\ ~(Recorded("deployment_status=success") /\ Recorded("deployment_status=failed"))
        /\ Recorded("deployment_status=success") =>
              (~SomeHostFailed /\ mainProc.exit = "0")

\* ---- C27: the temporary key files ----

\* the deploy_single_host call of worker who (0: the direct call) has ended
DeployEnded(who) ==
    IF who = 0 THEN mainProc.direct = 1 /\ pc # "deploy_single_host"
    ELSE who \in DOMAIN futures /\ Finished(who)

\* C27: once a deploy_single_host call has ended, with success or with a failure in
\* any step, no temporary private-key file that setup_ssh_key or setup_git_auth
\* created for it exists any more
C27_KeyFilesDeleted == \A f \in mainProc.keyFiles : ~DeployEnded(f.of)

\* ---- C28: one write per path ----

\* the successful remote writes of the run, in order
Writes == SelectSeq(cmdLog, LAMBDA e : e.op = "tee" /\ e.ok)

\* C28: within one generate_env_files run no remote path is written more than once,
\* for every structure, create-root option and override path
C28_OneWritePerPath ==
    \A a, b \in 1..Len(Writes) : Writes[a].path = Writes[b].path => a = b

\* C28, amended: no path is written more than once but the root path {base}/.env,
\* which is written a second time when the combined root file goes where the file of
\* the pattern .env already went; of two writes to one path the first is a pattern's
\* and the second the root file's
C28_OneWritePerPathButRoot ==
    \A a, b \in 1..Len(Writes) :
        (a < b /\ Writes[a].path = Writes[b].path) =>
            /\ created[Writes[a].call].origin = "pattern"
            /\ created[Writes[b].call].origin = "root"
            /\ Writes[b].path = PathJoin(config.GIT_SUBDIR, ".env")

\* a flat run with the patterns .env and .env.app wrote the component file once and
\* /root/proj/.env twice, for the pattern and as root file
C28_Witness ==
    /\ GenReturnedOk /\ config.ENV_FILES_STRUCTURE = "flat"
    /\ \E a, b, c \in 1..Len(Writes) :
          /\ a < b /\ Writes[a].path = Writes[b].path
          /\ Writes[c].path = "/root/proj/.env.app"

\* ---- C29: the root file and the component files ----

\* the lines of a content that give key a value
LinesOf(content, key) ==
    SelectSeq(ContentLines(content), LAMBDA l : IsPairLine(l) /\ LineKey(l) = key)

\* the value a file of this content maps key to (that of its last line for the key),
\* None when it has no line for it
FileValue(content, key) ==
    Bind(LinesOf(content, key), LAMBDA ls :
        IF ls = <<>> THEN None ELSE LineValue(ls[Len(ls)]))

\* the component a pattern names
ComponentName(pattern) == Upper(Replace(pattern, ".env.", ""))

\* the run wrote every file of env_file_data and the root file
AllWritten ==
    /\ GenReturnedOk
    /\ \A c \in 1..Len(created) : created[c].content # "" => Succeeded(c)
    /\ RootCalls # {}

\* C29: for every component C and every key K the file of C receives from an
\* individual variable or an entry of a parsed blob, the root file of the same run
\* maps C_K to the value the file of C maps K to
C29_RootAgreesWithComponents ==
    AllWritten =>
        \A r \in RootCalls : \A p \in 1..Len(env_file_data) :
            IsComponentFile(env_file_data[p][1]) =>
                \A kv \in Items(ResolvedFor(env_file_data[p][1])) :
                    FileValue(created[r].content,
                              ComponentName(env_file_data[p][1]) \o "_" \o kv[1])
                        = FileValue(env_file_data[p][2], kv[1])

\* ---- C30: the global merge and the order of the variables ----

\* the enumerations of the mapping d
Enumerations(d) ==
    {q \in [1..Len(d) -> Items(d)] : \A i, j \in 1..Len(d) : q[i] = q[j] => i = j}

\* C30: the global merge of a variable set is the same mapping for every order in
\* which the variables are enumerated, also when a component blob and an individual
\* variable of the same scope define the same output key
C30_GlobalMergeOrderFree ==
    (MergeReturned /\ args.pattern = ".env") =>
        \A q \in Enumerations(args.all_env_vars) :
            Items(merge_env_vars_by_priority(q, config.ENVIRONMENT, ".env",
                                             config.ENV_FILES_FORMAT))
                = Items(ret)

====
